---- MODULE Spec2Model ----
(***************************************************************************)
(* Analytics and scoring engine of the emotion recognition backend.        *)
(*                                                                         *)
(* Numbers: every confidence, score and threshold of the Python code is a  *)
(* float in [0, 1]; here it is the integer number of thousandths           *)
(* (0.7 is 700).  Quotients (means, ratios, percentages) are kept exact as *)
(* records [num, den] and compared by cross-multiplication; round(x, n) is *)
(* modelled by Round.                                                      *)
(***************************************************************************)
EXTENDS Integers, Sequences, FiniteSets, TLC

VARIABLES
    recArgs,      \* <<arguments>> of the last generate_intelligent_recommendations
                  \* call, <<>> before the first call
    recOut,       \* the list that call returned
    records,      \* emotion_records rows of the user, ascending timestamp
    response,     \* the last HTTP response: [handler, status, data]
    locals,       \* local variables of the last analytics handler at its return
    history,      \* the emotions_history list handed to the EmotionAnalyzer
    scores,       \* what the analyzer and the trend block computed from it
    analyzer,     \* the fields of the module-level EmotionAnalyzer instance
    calls,        \* per request thread: the scoring call it runs or last ran
    heap,         \* the live list objects of the recommendation engine, by identity
    db,           \* the committed emotion_sessions and emotion_records tables
    requests      \* per request thread: the save or end request it is inside

vars == <<recArgs, recOut, records, response, locals, history, scores,
          analyzer, calls, heap, db, requests>>

\* The seven canonical labels, in the order of the literal lists of the code.
Canonical == <<"happy", "sad", "angry", "fearful", "disgusted", "surprised", "neutral">>

CanonicalSet == {Canonical[i] : i \in 1..Len(Canonical)}

Min(a, b) == IF a < b THEN a ELSE b

\* list[:n]
Take(s, n) == SubSeq(s, 1, Min(n, Len(s)))

\* list[-n:]
Last(s, n) == SubSeq(s, Len(s) - Min(n, Len(s)) + 1, Len(s))

\* EmotionAnalyzer.__init__: emotion_weights in thousandths, in the dict's own
\* order, and stability_threshold in thousandths.
NewEmotionAnalyzer ==
    [emotion_weights |-> << <<"happy", 1000>>, <<"sad", -800>>, <<"angry", -1000>>,
                            <<"surprised", 300>>, <<"fearful", -700>>,
                            <<"disgusted", -600>>, <<"neutral", 0>> >>,
     stability_threshold |-> 300]

\* The request threads that call the scoring components.
Callers == {1, 2}

\* A thread that has made no call yet.
Idle == [pc |-> "idle"]

\* The tables after db.create_all(): no row.
EmptyTables == [sessions |-> <<>>, records |-> <<>>]

(***************************************************************************)
(* RecommendationEngine: generate_intelligent_recommendations (ml.py).     *)
(* A recommendation object is modelled by its 'type' tag, which is unique  *)
(* among the objects the function can build.                               *)
(***************************************************************************)
HappyConfidence == 700
SadConfidence == 600
StabilityLow == 400
WellnessLow == 300
MaxRecommendations == 4

\* Faulty variant of BaseRecommendations: a default 'happy' list below the confidence
\* threshold.
BaseRecommendationsHappyDefault(dominant_emotion, confidence) ==
    CASE dominant_emotion = "happy" ->
            IF confidence > HappyConfidence THEN <<"maintain", "creative">>
            ELSE <<"maintain">>
      [] dominant_emotion = "sad" ->
            IF confidence > SadConfidence
            THEN <<"support", "connection", "mindfulness">> ELSE <<>>
      [] dominant_emotion = "angry" -> <<"release", "cooling", "expression">>
      [] dominant_emotion = "surprised" -> <<"process", "adaptation">>
      [] dominant_emotion = "fearful" -> <<"grounding", "safety", "breathing">>
      [] OTHER -> <<"awareness", "engagement">>

\* The if/elif ladder that selects the base list.
BaseRecommendations(dominant_emotion, confidence) ==
    CASE dominant_emotion = "happy" ->
            IF confidence > HappyConfidence THEN <<"maintain", "creative">> ELSE <<>>
      [] dominant_emotion = "sad" ->
            IF confidence > SadConfidence
            THEN <<"support", "connection", "mindfulness">> ELSE <<>>
      [] dominant_emotion = "angry" -> <<"release", "cooling", "expression">>
      [] dominant_emotion = "surprised" -> <<"process", "adaptation">>
      [] dominant_emotion = "fearful" -> <<"grounding", "safety", "breathing">>
      [] OTHER -> <<"awareness", "engagement">>

\* list.insert(0, x)
InsertFront(list, x) == <<x>> \o list

\* Faulty variant of StabilityAdjust: the item is appended instead of inserted at 0.
StabilityAdjustAppends(recommendations, stability_score) ==
    IF stability_score < StabilityLow
    THEN recommendations \o <<"stability">>
    ELSE recommendations

\* if stability_score < 0.4: recommendations.insert(0, {stability item})
StabilityAdjust(recommendations, stability_score) ==
    IF stability_score < StabilityLow
    THEN InsertFront(recommendations, "stability")
    ELSE recommendations

\* if wellness_score < 0.3: recommendations.insert(0, {wellness item})
WellnessAdjust(recommendations, wellness_score) ==
    IF wellness_score < WellnessLow
    THEN InsertFront(recommendations, "wellness")
    ELSE recommendations

\* Faulty variant of TopRecommendations: one entry too few is kept.
TopRecommendationsShort(recommendations) == Take(recommendations, MaxRecommendations - 1)

\* return recommendations[:4]
TopRecommendations(recommendations) == Take(recommendations, MaxRecommendations)

GenerateIntelligentRecommendations(dominant_emotion, confidence, wellness_score, stability_score) ==
    TopRecommendations(
        WellnessAdjust(
            StabilityAdjust(BaseRecommendations(dominant_emotion, confidence),
                            stability_score),
            wellness_score))

\* Inputs of the recommendation engine: every canonical label and one label
\* outside them, and scores on both sides of (and on) each threshold.
Dominants == CanonicalSet \cup {"mixed"}
Confidences == {0, 600, 601, 700, 701, 800, 1000}
WellnessScores == {0, 200, 299, 300, 500}
StabilityScores == {100, 200, 399, 400, 700}

CallRecommendations ==
    \E d \in Dominants, c \in Confidences, w \in WellnessScores, s \in StabilityScores :
        /\ recArgs' = <<[dominant_emotion |-> d, confidence |-> c,
                        wellness_score |-> w, stability_score |-> s]>>
        /\ recOut' = GenerateIntelligentRecommendations(d, c, w, s)
        /\ UNCHANGED <<records, response, locals, history, scores, analyzer, calls, heap, db, requests>>

InitRec ==
    /\ recArgs = <<>>
    /\ recOut = <<>>
    /\ records = <<>>
    /\ response = [handler |-> "none", status |-> 0, message |-> ""]
    /\ locals = [handler |-> "none"]
    /\ history = <<>>
    /\ scores = [handler |-> "none"]
    /\ analyzer = NewEmotionAnalyzer
    /\ calls = [c \in Callers |-> Idle]
    /\ heap = <<>>
    /\ db = EmptyTables
    /\ requests = [t \in Callers |-> Idle]

NextRec == CallRecommendations

SpecRec == InitRec /\ [][NextRec]_vars

(***************************************************************************)
(* Stored emotion records.  A row is [ts, emotions]: ts is its timestamp   *)
(* (rows are stored with increasing timestamps, so queries ordered by      *)
(* timestamp return them in sequence order) and emotions is the JSON       *)
(* object of the emotions_json column, a sequence of <<key, value>> pairs  *)
(* in the object's own key order.  The rows are those of the authenticated *)
(* user inside the window the analytics queries filter on.  Every stored   *)
(* value is a number, so no handler below reaches its except branch.       *)
(***************************************************************************)
MaxRecords == 5

Dict(keys, values) == [i \in 1..Len(keys) |-> <<keys[i], values[i]>>]

Keys(emotions) == {emotions[j][1] : j \in 1..Len(emotions)}

\* emotions[key], for a key of the object
Get(emotions, key) ==
    LET j == CHOOSE j \in 1..Len(emotions) : emotions[j][1] = key
    IN  emotions[j][2]

\* validate_emotion_data (validators.py): every canonical key present with a
\* number in [0, 1]; other keys are not looked at.
ValidateEmotionData(emotions) ==
    \A i \in 1..Len(Canonical) :
        /\ Canonical[i] \in Keys(emotions)
        /\ Get(emotions, Canonical[i]) >= 0
        /\ Get(emotions, Canonical[i]) <= 1000

\* Request bodies of save_emotion used as inputs: all-zero and all-one vectors,
\* a graded vector that sits on the 0.9 and 0.7 thresholds, a vector with a
\* non-canonical key, and a vector that misses canonical keys.
AllZero == Dict(Canonical, <<0, 0, 0, 0, 0, 0, 0>>)
AllOne == Dict(Canonical, <<1000, 1000, 1000, 1000, 1000, 1000, 1000>>)
Graded == Dict(Canonical, <<1000, 950, 900, 800, 750, 700, 400>>)
WithContempt == Dict(<<"contempt">> \o Canonical, <<950, 0, 100, 200, 0, 100, 200, 300>>)
Partial == <<<<"happy", 850>>, <<"neutral", 150>>>>

SaveInputs == {AllZero, AllOne, Graded, WithContempt, Partial}

\* The three rows create_sample_data (init_db.py) stores for the demo user.
SampleEmotions ==
    << <<<<"happy", 850>>, <<"neutral", 150>>>>,
       <<<<"neutral", 720>>, <<"happy", 280>>>>,
       <<<<"surprised", 680>>, <<"neutral", 320>>>> >>

(***************************************************************************)
(* BaselineTracker and PeakAnomalyDetector: get_emotion_peaks              *)
(* (analytics.py).                                                         *)
(***************************************************************************)
PeakAbsolute == 700
AnomalyAbsolute == 900
MaxPeaks == 20
MaxAnomalies == 10

\* threshold_multiplier = 1.5
ThresholdMultiplier == [num |-> 3, den |-> 2]

\* round(num / den) to the nearest integer, ties to even, for num >= 0, den > 0
Round(num, den) ==
    LET q == num \div den
        r == num % den
    IN  IF 2 * r > den THEN q + 1
        ELSE IF 2 * r = den THEN q + (q % 2)
        ELSE q

RECURSIVE Sum(_)
Sum(values) == IF values = <<>> THEN 0 ELSE Head(values) + Sum(Tail(values))

\* The (record, emotion, value) triples in the order of
\*   for record in records: for emotion, value in emotions.items()
RECURSIVE Items(_)
Items(recs) ==
    IF recs = <<>> THEN <<>>
    ELSE LET r == Head(recs)
         IN  [j \in 1..Len(r.emotions) |->
                 [timestamp |-> r.ts, emotion |-> r.emotions[j][1],
                  value |-> r.emotions[j][2]]]
             \o Items(Tail(recs))

\* emotion_baselines[emotion].append(value) on a defaultdict(list)
AppendValue(lists, emotion, value) ==
    IF emotion \in DOMAIN lists
    THEN [lists EXCEPT ![emotion] = Append(@, value)]
    ELSE [k \in DOMAIN lists \cup {emotion} |->
             IF k = emotion THEN <<value>> ELSE lists[k]]

RECURSIVE CollectValues(_, _)
CollectValues(items, lists) ==
    IF items = <<>> THEN lists
    ELSE CollectValues(Tail(items),
                       AppendValue(lists, Head(items).emotion, Head(items).value))

\* Faulty variant of Mean: divides by the number of records.
MeanOverRecords(values, recs) == [num |-> Sum(values), den |-> Len(recs)]

\* sum(values) / len(values)
Mean(values, recs) == [num |-> Sum(values), den |-> Len(values)]

\* baselines[emotion] = sum(values) / len(values)
Baselines(recs) ==
    LET emotion_baselines == CollectValues(Items(recs), <<>>)
    IN  [k \in DOMAIN emotion_baselines |-> Mean(emotion_baselines[k], recs)]

\* Faulty variant of IsPeak: the absolute threshold is not strict.
IsPeakNotStrict(value, baseline) ==
    /\ value * ThresholdMultiplier.den * baseline.den
           > baseline.num * ThresholdMultiplier.num
    /\ value >= PeakAbsolute

\* Faulty variant of IsPeak: the baseline is not looked at.
IsPeakAbsoluteOnly(value, baseline) == value > PeakAbsolute

\* value > baselines[emotion] * threshold_multiplier and value > 0.7
IsPeak(value, baseline) ==
    /\ value * ThresholdMultiplier.den * baseline.den
           > baseline.num * ThresholdMultiplier.num
    /\ value > PeakAbsolute

\* Faulty variant of IsAnomaly: the threshold is not strict.
IsAnomalyNotStrict(value) == value >= AnomalyAbsolute

\* value > 0.9
IsAnomaly(value) == value > AnomalyAbsolute

\* The dict appended to peaks; intensity is in hundredths.
PeakEntry(item, baseline) ==
    [timestamp |-> item.timestamp,
     emotion |-> item.emotion,
     value |-> Round(item.value, 1),
     baseline |-> Round(baseline.num, baseline.den),
     intensity |-> IF baseline.num > 0
                   THEN Round(item.value * baseline.den * 100, baseline.num)
                   ELSE 100]

\* The dict appended to anomalies.
AnomalyEntry(item) ==
    [timestamp |-> item.timestamp,
     emotion |-> item.emotion,
     value |-> Round(item.value, 1),
     type |-> "high_intensity"]

RECURSIVE FindPeaks(_, _)
FindPeaks(items, baselines) ==
    IF items = <<>> THEN <<>>
    ELSE (IF IsPeak(Head(items).value, baselines[Head(items).emotion])
          THEN <<PeakEntry(Head(items), baselines[Head(items).emotion])>>
          ELSE <<>>)
         \o FindPeaks(Tail(items), baselines)

RECURSIVE FindAnomalies(_)
FindAnomalies(items) ==
    IF items = <<>> THEN <<>>
    ELSE (IF IsAnomaly(Head(items).value) THEN <<AnomalyEntry(Head(items))>> ELSE <<>>)
         \o FindAnomalies(Tail(items))

\* Where list.sort(key=intensity, reverse=True) puts x among the entries sorted
\* before it: the sort is stable, so after every entry of intensity >= x's.
InsertByIntensity(sorted, x) ==
    LET n == Cardinality({i \in 1..Len(sorted) : sorted[i].intensity >= x.intensity})
    IN  SubSeq(sorted, 1, n) \o <<x>> \o SubSeq(sorted, n + 1, Len(sorted))

\* Faulty variant of SortPeaks: the list is left in detection order.
SortPeaksSkipped(peaks) == peaks

\* peaks.sort(key=lambda x: x['intensity'], reverse=True)
RECURSIVE SortPeaks(_)
SortPeaks(peaks) ==
    IF peaks = <<>> THEN <<>>
    ELSE InsertByIntensity(SortPeaks(SubSeq(peaks, 1, Len(peaks) - 1)),
                           peaks[Len(peaks)])

\* Faulty variant of RecentAnomalies: the first entries are kept.
RecentAnomaliesFirst(anomalies) == Take(anomalies, MaxAnomalies)

\* anomalies[-10:]
RecentAnomalies(anomalies) == Last(anomalies, MaxAnomalies)

\* peaks[:20]
TopPeaks(peaks) == Take(peaks, MaxPeaks)

\* {k: round(v, 3) for k, v in baselines.items()}
RoundedBaselines(baselines) ==
    [k \in DOMAIN baselines |-> Round(baselines[k].num, baselines[k].den)]

\* The local variables of get_emotion_peaks at its return, for a non-empty query
\* result.
PeaksLocals(recs) ==
    LET baselines == Baselines(recs)
    IN  [handler |-> "peaks",
         baselines |-> baselines,
         peaks |-> SortPeaks(FindPeaks(Items(recs), baselines)),
         anomalies |-> FindAnomalies(Items(recs))]

\* if not records: return success_response('No data available ...', {...})
NoPeaksResponse ==
    [handler |-> "peaks", status |-> 200,
     message |-> "No data available for peak analysis",
     data |-> [peaks |-> <<>>, anomalies |-> <<>>]]

\* The final success_response, built from the locals l.
PeaksFoundResponse(l) ==
    [handler |-> "peaks", status |-> 200,
     message |-> "Emotion peaks and anomalies detected successfully",
     data |-> [peaks |-> TopPeaks(l.peaks),
               anomalies |-> RecentAnomalies(l.anomalies),
               baselines |-> RoundedBaselines(l.baselines)]]

\* The response of get_emotion_peaks for the query result recs.
PeaksResponse(recs) ==
    IF recs = <<>> THEN NoPeaksResponse ELSE PeaksFoundResponse(PeaksLocals(recs))

(***************************************************************************)
(* StressClassifier: get_pattern_analysis (analytics.py).  Its              *)
(* peakEmotionHours output is a function of the rows' timestamps alone and  *)
(* is left out; percentages are exact quotients [num, den].                 *)
(***************************************************************************)
StressEmotions == {"angry", "fearful", "disgusted", "sad"}
PositiveEmotions == {"happy"}

\* max(emotions.items(), key=lambda x: x[1]) if emotions else ('neutral', 0):
\* the first pair, in the object's order, that holds the largest value.
MaxEmotion(emotions) ==
    IF emotions = <<>> THEN <<"neutral", 0>>
    ELSE LET j == CHOOSE j \in 1..Len(emotions) :
                      /\ \A m \in 1..Len(emotions) : emotions[m][2] <= emotions[j][2]
                      /\ \A m \in 1..(j - 1) : emotions[m][2] < emotions[j][2]
         IN  emotions[j]

\* Faulty variant of StressBucket: sadness is not counted as stress.
StressBucketWithoutSad(emotions) ==
    LET emotion_name == MaxEmotion(emotions)[1]
    IN  IF emotion_name \in StressEmotions \ {"sad"} THEN "high"
        ELSE IF emotion_name \in PositiveEmotions THEN "low"
        ELSE "medium"

\* The bucket the if/elif ladder counts a row in.
StressBucket(emotions) ==
    LET emotion_name == MaxEmotion(emotions)[1]
    IN  IF emotion_name \in StressEmotions THEN "high"
        ELSE IF emotion_name \in PositiveEmotions THEN "low"
        ELSE "medium"

StressCount(recs, bucket) ==
    Cardinality({i \in 1..Len(recs) : StressBucket(recs[i].emotions) = bucket})

\* (count / total_records) * 100 if total_records > 0 else 33.3
StressPercent(count, total_records) ==
    IF total_records > 0
    THEN [num |-> count * 100, den |-> total_records]
    ELSE [num |-> 333, den |-> 10]

\* emotion_sums[emotion] += value on a defaultdict(float)
AddValue(sums, emotion, value) ==
    IF emotion \in DOMAIN sums
    THEN [sums EXCEPT ![emotion] = @ + value]
    ELSE [k \in DOMAIN sums \cup {emotion} |-> IF k = emotion THEN value ELSE sums[k]]

RECURSIVE EmotionSums(_, _)
EmotionSums(items, sums) ==
    IF items = <<>> THEN sums
    ELSE EmotionSums(Tail(items), AddValue(sums, Head(items).emotion, Head(items).value))

RECURSIVE SumOfMap(_, _)
SumOfMap(f, keys) ==
    IF keys = {} THEN 0
    ELSE LET k == CHOOSE k \in keys : TRUE
         IN  f[k] + SumOfMap(f, keys \ {k})

\* Faulty variant of EmotionCorrelations: percentages of the number of rows.
EmotionCorrelationsPerRow(recs) ==
    LET emotion_sums == EmotionSums(Items(recs), <<>>)
        total_sum == SumOfMap(emotion_sums, DOMAIN emotion_sums)
    IN  IF total_sum > 0
        THEN [k \in DOMAIN emotion_sums |->
                 [num |-> emotion_sums[k] * 100, den |-> 1000 * Len(recs)]]
        ELSE <<>>

\* {emotion: (value / total_sum) * 100 ...} if total_sum > 0, else {}
EmotionCorrelations(recs) ==
    LET emotion_sums == EmotionSums(Items(recs), <<>>)
        total_sum == SumOfMap(emotion_sums, DOMAIN emotion_sums)
    IN  IF total_sum > 0
        THEN [k \in DOMAIN emotion_sums |-> [num |-> emotion_sums[k] * 100, den |-> total_sum]]
        ELSE <<>>

\* The local counters of get_pattern_analysis at its return.
PatternLocals(recs) ==
    [handler |-> "patterns",
     total_records |-> Len(recs),
     high_stress_count |-> StressCount(recs, "high"),
     medium_stress_count |-> StressCount(recs, "medium"),
     low_stress_count |-> StressCount(recs, "low")]

\* The response of get_pattern_analysis for the query result recs.
PatternResponse(recs) ==
    IF recs = <<>>
    THEN [handler |-> "patterns", status |-> 200,
          message |-> "Pattern analysis completed",
          data |-> [emotionCorrelations |-> <<>>,
                    stressLevels |-> [low |-> StressPercent(0, 0),
                                      medium |-> StressPercent(0, 0),
                                      high |-> StressPercent(0, 0)]]]
    ELSE LET l == PatternLocals(recs)
         IN  [handler |-> "patterns", status |-> 200,
              message |-> "Pattern analysis completed",
              data |-> [emotionCorrelations |-> EmotionCorrelations(recs),
                        stressLevels |->
                            [low |-> StressPercent(l.low_stress_count, l.total_records),
                             medium |-> StressPercent(l.medium_stress_count, l.total_records),
                             high |-> StressPercent(l.high_stress_count, l.total_records)]]]

\* GET /patterns
GetPatternAnalysis ==
    /\ response' = PatternResponse(records)
    /\ locals' = IF records = <<>> THEN [handler |-> "patterns"] ELSE PatternLocals(records)
    /\ UNCHANGED <<records, recArgs, recOut, history, scores, analyzer, calls, heap, db, requests>>

NoLocals == [handler |-> "none"]

\* GET /peaks
GetEmotionPeaks ==
    /\ IF records = <<>>
       THEN /\ locals' = [handler |-> "peaks"]
            /\ response' = NoPeaksResponse
       ELSE /\ locals' = PeaksLocals(records)
            /\ response' = PeaksFoundResponse(locals')
    /\ UNCHANGED <<records, recArgs, recOut, history, scores, analyzer, calls, heap, db, requests>>

\* POST /save for the user's session: the client sends the vector as 'emotions'
\* and as 'confidence_scores'; the row is stored when it validates, else the
\* answer is error 400 and nothing is stored.
SaveEmotion ==
    \E emotions \in SaveInputs :
        /\ Len(records) < MaxRecords
        /\ IF ValidateEmotionData(emotions)
           THEN /\ records' = Append(records, [ts |-> Len(records) + 1,
                                               emotions |-> emotions])
                /\ response' = [handler |-> "save", status |-> 201,
                                message |-> "Emotion data saved successfully"]
           ELSE /\ records' = records
                /\ response' = [handler |-> "save", status |-> 400,
                                message |-> "Invalid emotion data format"]
        /\ locals' = NoLocals
        /\ UNCHANGED <<recArgs, recOut, history, scores, analyzer, calls, heap, db, requests>>

\* create_sample_data (init_db.py): run on a database without the demo user.
CreateSampleData ==
    /\ records = <<>>
    /\ response.handler = "none"
    /\ records' = [i \in 1..Len(SampleEmotions) |->
                      [ts |-> i, emotions |-> SampleEmotions[i]]]
    /\ response' = [handler |-> "init_db", status |-> 0, message |-> "sample data"]
    /\ locals' = NoLocals
    /\ UNCHANGED <<recArgs, recOut, history, scores, analyzer, calls, heap, db, requests>>

InitAnalytics ==
    /\ recArgs = <<>>
    /\ recOut = <<>>
    /\ records = <<>>
    /\ response = [handler |-> "none", status |-> 0, message |-> ""]
    /\ locals = NoLocals
    /\ history = <<>>
    /\ scores = [handler |-> "none"]
    /\ analyzer = NewEmotionAnalyzer
    /\ calls = [c \in Callers |-> Idle]
    /\ heap = <<>>
    /\ db = EmptyTables
    /\ requests = [t \in Callers |-> Idle]

NextAnalytics ==
    \/ SaveEmotion
    \/ CreateSampleData
    \/ GetEmotionPeaks
    \/ GetPatternAnalysis

SpecAnalytics == InitAnalytics /\ [][NextAnalytics]_vars

(***************************************************************************)
(* EmotionAnalyzer (ml.py) and the metrics block of predict_mood.          *)
(* A history is the emotions_history list: a sequence of emotion objects,  *)
(* oldest first.  A score is an exact fraction [num, den] of 1 with        *)
(* den > 0, kept in lowest terms.                                          *)
(***************************************************************************)
\* self.emotion_weights, in thousandths, in the dict's own order
EmotionWeights == analyzer.emotion_weights

\* self.stability_threshold, in thousandths
StabilityThreshold == analyzer.stability_threshold
WellnessWindow == 10
StabilityWindow == 5
StabilityMinRecords == 3
Lookback == 5
TrendMinRecords == 5
TrendMargin == 100

Zero == [num |-> 0, den |-> 1]
One == [num |-> 1, den |-> 1]
Half == [num |-> 1, den |-> 2]

RECURSIVE GCD(_, _)
GCD(a, b) == IF b = 0 THEN a ELSE GCD(b, a % b)

Reduce(q) ==
    LET g == GCD(IF q.num < 0 THEN -q.num ELSE q.num, q.den)
    IN  [num |-> q.num \div g, den |-> q.den \div g]

AddQ(a, b) == Reduce([num |-> a.num * b.den + b.num * a.den, den |-> a.den * b.den])

SubQ(a, b) == AddQ(a, [num |-> -b.num, den |-> b.den])

LessQ(a, b) == a.num * b.den < b.num * a.den

EqualQ(a, b) == a.num * b.den = b.num * a.den

\* a float given in thousandths
Thousandths(n) == Reduce([num |-> n, den |-> 1000])

RECURSIVE SumQ(_)
SumQ(qs) == IF qs = <<>> THEN Zero ELSE AddQ(Head(qs), SumQ(Tail(qs)))

\* np.mean of a non-empty list
MeanQ(qs) ==
    LET s == SumQ(qs)
    IN  Reduce([num |-> s.num, den |-> s.den * Len(qs)])

\* list[-a:-b]
SliceFromEnd(s, a, b) ==
    LET start == IF Len(s) > a THEN Len(s) - a ELSE 0
        stop == IF Len(s) > b THEN Len(s) - b ELSE 0
    IN  SubSeq(s, start + 1, stop)

\* The (emotion, value) pairs of a record whose emotion is in emotion_weights.
Weighted(record) == SelectSeq(record, LAMBDA p : p[1] \in Keys(EmotionWeights))

\* record_score, in millionths
RecordScore(record) ==
    LET w == Weighted(record)
    IN  Sum([j \in 1..Len(w) |-> w[j][2] * Get(EmotionWeights, w[j][1])])

\* total_intensity, in thousandths
TotalIntensity(record) ==
    LET w == Weighted(record)
    IN  Sum([j \in 1..Len(w) |-> w[j][2]])

\* max(0, min(1, q))
Clamp(q) == IF LessQ(One, q) THEN One ELSE IF LessQ(q, Zero) THEN Zero ELSE q

\* (record_score + total_intensity) / (2 * total_intensity), clamped
NormalizedScore(record) ==
    Clamp(Reduce([num |-> RecordScore(record) + 1000 * TotalIntensity(record),
                  den |-> 2 * 1000 * TotalIntensity(record)]))

\* Faulty variant of WellnessRecords: the window is one record too long.
WellnessRecordsEleven(emotions_history) == Last(emotions_history, WellnessWindow + 1)

\* Faulty variant of WellnessRecords: the whole history instead of its tail.
WellnessRecordsAll(emotions_history) == emotions_history

\* emotions_history[-10:]
WellnessRecords(emotions_history) == Last(emotions_history, WellnessWindow)

\* The scores list of calculate_wellness_score: one entry per record of the
\* window with total_intensity > 0.
WellnessSamples(emotions_history) ==
    LET scored == SelectSeq(WellnessRecords(emotions_history),
                            LAMBDA record : TotalIntensity(record) > 0)
    IN  [j \in 1..Len(scored) |-> NormalizedScore(scored[j])]

CalculateWellnessScore(emotions_history) ==
    IF emotions_history = <<>> THEN Half
    ELSE LET samples == WellnessSamples(emotions_history)
         IN  IF samples # <<>> THEN MeanQ(samples) ELSE Half

\* Faulty variant of Variance: the sample variance (divisor n - 1).
VarianceSample(values) ==
    LET n == Len(values)
    IN  Reduce([num |-> n * Sum([j \in 1..n |-> values[j] * values[j]])
                        - Sum(values) * Sum(values),
                den |-> n * (n - 1)])

\* np.var(values), in millionths: mean((v - mean)^2) = (n*sum(v^2) - sum(v)^2) / n^2
Variance(values) ==
    LET n == Len(values)
    IN  Reduce([num |-> n * Sum([j \in 1..n |-> values[j] * values[j]])
                        - Sum(values) * Sum(values),
                den |-> n * n])

\* record.get(emotion, 0)
GetOrZero(record, emotion) == IF emotion \in Keys(record) THEN Get(record, emotion) ELSE 0

\* avg_variance, in millionths: np.mean over the entries of emotion_variances,
\* one per key of emotion_weights (len(values) > 1 holds from 3 records on).
AvgVariance(recent_records) ==
    MeanQ([e \in 1..Len(EmotionWeights) |->
              Variance([j \in 1..Len(recent_records) |->
                           GetOrZero(recent_records[j], EmotionWeights[e][1])])])

CalculateStabilityScore(emotions_history) ==
    IF Len(emotions_history) < StabilityMinRecords THEN Thousandths(700)
    ELSE LET recent_records == Last(emotions_history, StabilityWindow)
             avg_variance == AvgVariance(recent_records)
             ratio == Reduce([num |-> avg_variance.num,
                              den |-> avg_variance.den * StabilityThreshold * 1000])
             raw == SubQ(One, ratio)
             stability == IF LessQ(raw, Thousandths(100)) THEN Thousandths(100) ELSE raw
         IN  IF LessQ(One, stability) THEN One ELSE stability

\* Faulty variant of RecordWeight: every record weighs the same.
RecordWeightUniform(i, n) == [num |-> 1, den |-> n]

\* weight = (i + 1) / len(recent_records), for the i-th record counted from 1
RecordWeight(i, n) == [num |-> i, den |-> n]

\* emotion_totals[emotion] += amount on a defaultdict(float); the dict keeps
\* its keys in the order of their first insertion.
AddTotal(totals, emotion, amount) ==
    IF emotion \in Keys(totals)
    THEN [j \in 1..Len(totals) |->
             IF totals[j][1] = emotion THEN <<emotion, totals[j][2] + amount>>
             ELSE totals[j]]
    ELSE Append(totals, <<emotion, amount>>)

RECURSIVE AddRecordTotals(_, _, _)
AddRecordTotals(pairs, weight, totals) ==
    IF pairs = <<>> THEN totals
    ELSE AddRecordTotals(Tail(pairs), weight,
                         AddTotal(totals, Head(pairs)[1], Head(pairs)[2] * weight.num))

\* emotion_totals after the loop over recent_records[i..]: numerators of
\* value * weight over the common denominator 1000 * len(recent_records).
RECURSIVE EmotionTotals(_, _, _)
EmotionTotals(recent_records, i, totals) ==
    IF i > Len(recent_records) THEN totals
    ELSE EmotionTotals(recent_records, i + 1,
                       AddRecordTotals(Weighted(recent_records[i]),
                                       RecordWeight(i, Len(recent_records)), totals))

\* total_weight after the loop, as a numerator over len(recent_records)
TotalWeight(recent_records) ==
    Sum([i \in 1..Len(recent_records) |-> RecordWeight(i, Len(recent_records)).num])

\* get_dominant_emotion_trend: <<dominant, confidence>>.  Dividing every total
\* by total_weight keeps their order, so max() picks the first key, in the
\* dict's order, with the largest total.
GetDominantEmotionTrend(emotions_history, lookback) ==
    IF emotions_history = <<>> THEN <<"neutral", Zero>>
    ELSE LET recent_records == Last(emotions_history, lookback)
             emotion_totals == EmotionTotals(recent_records, 1, <<>>)
             total_weight == TotalWeight(recent_records)
         IN  IF emotion_totals = <<>> THEN <<"neutral", Zero>>
             ELSE LET dominant == MaxEmotion(emotion_totals)
                      confidence == Reduce([num |-> dominant[2],
                                            den |-> 1000 * total_weight])
                  IN  <<dominant[1], IF LessQ(One, confidence) THEN One ELSE confidence>>

\* Faulty variant of TrendOf: the margins are not strict.
TrendOfNotStrict(recent_wellness, earlier_wellness) ==
    IF ~LessQ(recent_wellness, AddQ(earlier_wellness, Thousandths(TrendMargin)))
    THEN "improving"
    ELSE IF ~LessQ(SubQ(earlier_wellness, Thousandths(TrendMargin)), recent_wellness)
    THEN "declining"
    ELSE "stable"

\* The if/elif/else of the trend block.
TrendOf(recent_wellness, earlier_wellness) ==
    IF LessQ(AddQ(earlier_wellness, Thousandths(TrendMargin)), recent_wellness)
    THEN "improving"
    ELSE IF LessQ(recent_wellness, SubQ(earlier_wellness, Thousandths(TrendMargin)))
    THEN "declining"
    ELSE "stable"

\* The prediction of predict_mood for a history, with the locals of the trend
\* block when it ran.
PredictMoodScores(emotions_history) ==
    IF emotions_history = <<>>
    THEN [handler |-> "predict_mood", dominant_emotion |-> "neutral",
          confidence |-> Zero, trend |-> "stable",
          wellness_score |-> Half, stability_score |-> Thousandths(700)]
    ELSE LET dominant == GetDominantEmotionTrend(emotions_history, Lookback)
             wellness_score == CalculateWellnessScore(emotions_history)
             stability_score == CalculateStabilityScore(emotions_history)
         IN  IF Len(emotions_history) >= TrendMinRecords
             THEN LET recent == Last(emotions_history, 3)
                      earlier == SliceFromEnd(emotions_history, 6, 3)
                      recent_wellness == CalculateWellnessScore(recent)
                      earlier_wellness == CalculateWellnessScore(earlier)
                  IN  [handler |-> "predict_mood", dominant_emotion |-> dominant[1],
                       confidence |-> dominant[2],
                       trend |-> TrendOf(recent_wellness, earlier_wellness),
                       wellness_score |-> wellness_score,
                       stability_score |-> stability_score,
                       recent |-> recent, earlier |-> earlier,
                       recent_wellness |-> recent_wellness,
                       earlier_wellness |-> earlier_wellness]
             ELSE [handler |-> "predict_mood", dominant_emotion |-> dominant[1],
                   confidence |-> dominant[2], trend |-> "stable",
                   wellness_score |-> wellness_score,
                   stability_score |-> stability_score]

\* Histories used as inputs.  Short histories mix four objects: a happy-only
\* and an angry-only vector (wellness 1 and 0), a vector whose two equal
\* values come in non-canonical key order (wellness 0.3), and a vector with
\* no known key.  Long histories reach past every window of the analyzer.
MaxHistory == 6
MaxLongHistory == 11

HappyOnly == <<<<"happy", 1000>>>>
AngryOnly == <<<<"angry", 1000>>>>
NeutralSad == <<<<"neutral", 500>>, <<"sad", 500>>>>
ContemptOnly == <<<<"contempt", 950>>>>

ScoreInputs == {HappyOnly, AngryOnly, NeutralSad, ContemptOnly}
LongInputs == {HappyOnly, AngryOnly}

Histories ==
    UNION {[1..n -> ScoreInputs] : n \in 0..MaxHistory}
    \cup UNION {[1..n -> LongInputs] : n \in (MaxHistory + 1)..MaxLongHistory}

\* POST /predict-mood from the point where emotions_history is known.
PredictMood ==
    /\ scores' = PredictMoodScores(history)
    /\ UNCHANGED <<recArgs, recOut, records, response, locals, history, analyzer, calls, heap, db, requests>>

InitScores ==
    /\ recArgs = <<>>
    /\ recOut = <<>>
    /\ records = <<>>
    /\ response = [handler |-> "none", status |-> 0, message |-> ""]
    /\ locals = NoLocals
    /\ history \in Histories
    /\ scores = [handler |-> "none"]
    /\ analyzer = NewEmotionAnalyzer
    /\ calls = [c \in Callers |-> Idle]
    /\ heap = <<>>
    /\ db = EmptyTables
    /\ requests = [t \in Callers |-> Idle]

NextScores == PredictMood

SpecScores == InitScores /\ [][NextScores]_vars

(***************************************************************************)
(* The scoring components called from concurrent request threads.  The     *)
(* three EmotionAnalyzer methods read the fields of the one module-level   *)
(* instance; generate_intelligent_recommendations works on list objects,   *)
(* which are kept in a heap by identity so that sharing would show.        *)
(***************************************************************************)
AnalyzerMethods ==
    {"calculate_wellness_score", "calculate_stability_score", "get_dominant_emotion_trend"}

\* Faulty variant of AnalyzerAfterCall: a call leaves a tuned threshold behind.
AnalyzerAfterCallTuned(self) == [self EXCEPT !.stability_threshold = 150]

\* The instance after a method has run: no method assigns to a field of self.
AnalyzerAfterCall(self) == self

\* What a method returns for its argument, read off the instance as it is now.
MethodResult(fn, emotions_history) ==
    CASE fn = "calculate_wellness_score" -> <<CalculateWellnessScore(emotions_history)>>
      [] fn = "calculate_stability_score" -> <<CalculateStabilityScore(emotions_history)>>
      [] fn = "get_dominant_emotion_trend" -> GetDominantEmotionTrend(emotions_history, Lookback)

\* Arguments of the calls: histories for the methods, score tuples for the engine.
EngineHistories ==
    {<<HappyOnly, AngryOnly, NeutralSad>>,
     <<NeutralSad, AngryOnly, HappyOnly, HappyOnly, ContemptOnly, NeutralSad>>}

EngineArguments ==
    {[dominant_emotion |-> "happy", confidence |-> 600, wellness_score |-> 500, stability_score |-> 700],
     [dominant_emotion |-> "sad", confidence |-> 700, wellness_score |-> 200, stability_score |-> 200],
     [dominant_emotion |-> "angry", confidence |-> 800, wellness_score |-> 500, stability_score |-> 399]}

\* Is any other thread inside a call?
OthersRunning(c) == \E o \in Callers \ {c} : calls[o].pc \in {"running", "stability", "wellness"}

\* The identities of the lists a thread still holds from its earlier calls.
HeldBy(call) == IF call.pc = "idle" THEN {} ELSE {call.held[n].id : n \in 1..Len(call.held)}

Held(call) == IF call.pc = "idle" THEN <<>> ELSE call.held

\* Faulty variant of NewList: one module-level list object serves every call.
NewListShared(live) == 0

\* A list display or a slice creates a new object: an identity not in use.
NewList(live) == CHOOSE id \in 1..(Cardinality(live) + 1) : id \notin live

\* heap with list 'id' bound to 'items' and the lists in 'dropped' collected
Store(id, items, dropped) ==
    [i \in ((DOMAIN heap) \ dropped) \cup {id} |-> IF i = id THEN items ELSE heap[i]]

\* A thread enters one of the analyzer's methods.
BeginMethod(c) ==
    /\ calls[c].pc \in {"idle", "returned"}
    /\ \E fn \in AnalyzerMethods, emotions_history \in EngineHistories :
           calls' = [o \in Callers |->
                        IF o = c
                        THEN [pc |-> "running", fn |-> fn, input |-> <<emotions_history>>,
                              overlapped |-> OthersRunning(c), held |-> Held(calls[c])]
                        ELSE IF calls[o].pc \in {"running", "stability", "wellness"}
                             THEN [calls[o] EXCEPT !.overlapped = TRUE]
                             ELSE calls[o]]
    /\ UNCHANGED <<recArgs, recOut, records, response, locals, history, scores, analyzer, heap, db, requests>>

\* The method computes its result from its argument and the instance's fields.
ReturnMethod(c) ==
    /\ calls[c].pc = "running"
    /\ calls[c].fn \in AnalyzerMethods
    /\ calls' = [calls EXCEPT ![c] =
                    [pc |-> "returned", fn |-> calls[c].fn, input |-> calls[c].input,
                     overlapped |-> calls[c].overlapped, held |-> calls[c].held,
                     output |-> MethodResult(calls[c].fn, calls[c].input[1])]]
    /\ analyzer' = AnalyzerAfterCall(analyzer)
    /\ UNCHANGED <<recArgs, recOut, records, response, locals, history, scores, heap, db, requests>>

\* generate_intelligent_recommendations up to the end of the if/elif ladder:
\* 'recommendations' is bound to a list display built in this call.
BeginRecommendations(c) ==
    /\ calls[c].pc \in {"idle", "returned"}
    /\ \E args \in EngineArguments :
           LET id == NewList(DOMAIN heap)
           IN  /\ heap' = Store(id, BaseRecommendations(args.dominant_emotion, args.confidence), {})
               /\ calls' = [o \in Callers |->
                               IF o = c
                               THEN [pc |-> "stability",
                                     fn |-> "generate_intelligent_recommendations",
                                     input |-> <<args>>, overlapped |-> OthersRunning(c),
                                     held |-> Held(calls[c]), recommendations |-> id]
                               ELSE IF calls[o].pc \in {"running", "stability", "wellness"}
                                    THEN [calls[o] EXCEPT !.overlapped = TRUE]
                                    ELSE calls[o]]
    /\ UNCHANGED <<recArgs, recOut, records, response, locals, history, scores, analyzer, db, requests>>

\* if stability_score < 0.4: recommendations.insert(0, ...), in place
InsertStability(c) ==
    /\ calls[c].pc = "stability"
    /\ LET id == calls[c].recommendations
       IN  heap' = [heap EXCEPT ![id] = StabilityAdjust(heap[id], calls[c].input[1].stability_score)]
    /\ calls' = [calls EXCEPT ![c].pc = "wellness"]
    /\ UNCHANGED <<recArgs, recOut, records, response, locals, history, scores, analyzer, db, requests>>

\* if wellness_score < 0.3: recommendations.insert(0, ...), in place
InsertWellness(c) ==
    /\ calls[c].pc = "wellness"
    /\ LET id == calls[c].recommendations
       IN  heap' = [heap EXCEPT ![id] = WellnessAdjust(heap[id], calls[c].input[1].wellness_score)]
    /\ calls' = [calls EXCEPT ![c].pc = "slice"]
    /\ UNCHANGED <<recArgs, recOut, records, response, locals, history, scores, analyzer, db, requests>>

\* return recommendations[:4]: the slice is a new list; the local list dies
\* with the frame, and the thread lets go of the list it held before.
ReturnRecommendations(c) ==
    /\ calls[c].pc = "slice"
    /\ LET local == calls[c].recommendations
           id == NewList(DOMAIN heap)
           items == TopRecommendations(heap[local])
       IN  /\ heap' = Store(id, items, ({local} \cup HeldBy(calls[c])) \ {id})
           /\ calls' = [calls EXCEPT ![c] =
                           [pc |-> "returned", fn |-> calls[c].fn, input |-> calls[c].input,
                            overlapped |-> calls[c].overlapped,
                            held |-> <<[id |-> id, items |-> items]>>,
                            output |-> <<id>>]]
    /\ UNCHANGED <<recArgs, recOut, records, response, locals, history, scores, analyzer, db, requests>>

NextEngine ==
    \E c \in Callers :
        \/ BeginMethod(c)
        \/ ReturnMethod(c)
        \/ BeginRecommendations(c)
        \/ InsertStability(c)
        \/ InsertWellness(c)
        \/ ReturnRecommendations(c)

SpecEngine == InitRec /\ [][NextEngine]_vars

(***************************************************************************)
(* get_emotion_patterns (analytics.py): averages by hour of day and by day *)
(* of week.  A timestamp counts steps of 3 minutes from a Monday 00:00     *)
(* UTC, so 20 steps are an hour and 480 steps a day; the sample rows of    *)
(* init_db.py are 3 minutes apart.                                         *)
(***************************************************************************)
\* record.timestamp.hour
Hour(ts) == (ts \div 20) % 24

\* record.timestamp.weekday(), 0 = Monday
Weekday(ts) == (ts \div 480) % 7

DayNames == <<"Monday", "Tuesday", "Wednesday", "Thursday", "Friday", "Saturday", "Sunday">>

\* hour_patterns after the loop over the records: for every hour some record
\* falls in, the value lists of the emotions met there.
HourPatterns(recs) ==
    [hour \in {Hour(recs[i].ts) : i \in 1..Len(recs)} |->
        CollectValues(Items(SelectSeq(recs, LAMBDA r : Hour(r.ts) = hour)), <<>>)]

\* day_patterns after the loop over the records
DayPatterns(recs) ==
    [day \in {Weekday(recs[i].ts) : i \in 1..Len(recs)} |->
        CollectValues(Items(SelectSeq(recs, LAMBDA r : Weekday(r.ts) = day)), <<>>)]

\* values = hour_patterns[hour][emotion], the empty list for a new entry
PatternValues(patterns, bucket, emotion) ==
    IF bucket \in DOMAIN patterns /\ emotion \in DOMAIN patterns[bucket]
    THEN patterns[bucket][emotion]
    ELSE <<>>

\* Faulty variant of Average: divides by the number of records in the bucket.
AverageOverBucket(values, patterns, bucket) ==
    IF values # <<>>
    THEN LET sizes == {Len(patterns[bucket][e]) : e \in DOMAIN patterns[bucket]}
             size == CHOOSE n \in sizes : \A m \in sizes : m <= n
         IN  Round(Sum(values), size)
    ELSE 0

\* round(sum(values) / len(values), 3) if values else 0, in thousandths
Average(values, patterns, bucket) ==
    IF values # <<>> THEN Round(Sum(values), Len(values)) ELSE 0

\* Faulty variant of HourInfo: only the emotions met in the bucket are listed.
HourInfoMetOnly(patterns, hour) ==
    [k \in {"hour"} \cup (IF hour \in DOMAIN patterns THEN DOMAIN patterns[hour] ELSE {}) |->
        IF k = "hour" THEN hour
        ELSE Average(PatternValues(patterns, hour, k), patterns, hour)]

\* hour_info: {'hour': hour, 'happy': ..., ..., 'neutral': ...}
HourInfo(patterns, hour) ==
    [k \in {"hour"} \cup CanonicalSet |->
        IF k = "hour" THEN hour
        ELSE Average(PatternValues(patterns, hour, k), patterns, hour)]

\* day_info: {'day': name, 'day_num': day, 'happy': ..., ..., 'neutral': ...}
DayInfo(patterns, day) ==
    [k \in {"day", "day_num"} \cup CanonicalSet |->
        IF k = "day" THEN DayNames[day + 1]
        ELSE IF k = "day_num" THEN day
        ELSE Average(PatternValues(patterns, day, k), patterns, day)]

\* hour_data: for hour in range(24)
HourData(patterns) == [h \in 1..24 |-> HourInfo(patterns, h - 1)]

\* day_data: for day in range(7)
DayData(patterns) == [d \in 1..7 |-> DayInfo(patterns, d - 1)]

\* GET /patterns/detailed with the default period of 30 days
GetEmotionPatterns ==
    /\ locals' = [handler |-> "emotion_patterns",
                  hour_patterns |-> HourPatterns(records),
                  day_patterns |-> DayPatterns(records)]
    /\ response' = [handler |-> "emotion_patterns", status |-> 200,
                    message |-> "Emotion patterns retrieved successfully",
                    data |-> [hourly_patterns |-> HourData(locals'.hour_patterns),
                              daily_patterns |-> DayData(locals'.day_patterns),
                              analysis_period_days |-> 30]]
    /\ UNCHANGED <<records, recArgs, recOut, history, scores, analyzer, calls, heap, db, requests>>

\* Request bodies of this specification: three valid vectors, whose largest
\* values are in happy, in sad and in neutral, sent 3 minutes, an hour or a
\* day after the previous row.  Their values are such that no mean of up to
\* four rows falls halfway between two thousandths, where round() would
\* depend on the binary representation of the float.
MaxPatternRecords == 3

Cheerful == Dict(Canonical, <<902, 2, 2, 2, 2, 302, 102>>)
SadHigh == Dict(Canonical, <<102, 902, 2, 50, 2, 2, 202>>)
Calm == Dict(Canonical, <<250, 2, 2, 2, 2, 54, 702>>)

PatternInputs == {Cheerful, SadHigh, Calm}

Delays == {1, 20, 480}

\* POST /save, the row stamped with the time of the request
SaveEmotionAt ==
    \E emotions \in PatternInputs, delay \in Delays :
        /\ Len(records) < MaxPatternRecords
        /\ IF ValidateEmotionData(emotions)
           THEN /\ records' = Append(records,
                                     [ts |-> (IF records = <<>> THEN 0
                                              ELSE records[Len(records)].ts) + delay,
                                      emotions |-> emotions])
                /\ response' = [handler |-> "save", status |-> 201,
                                message |-> "Emotion data saved successfully"]
           ELSE /\ records' = records
                /\ response' = [handler |-> "save", status |-> 400,
                                message |-> "Invalid emotion data format"]
        /\ locals' = NoLocals
        /\ UNCHANGED <<recArgs, recOut, history, scores, analyzer, calls, heap, db, requests>>

NextPatterns ==
    \/ SaveEmotionAt
    \/ CreateSampleData
    \/ GetPatternAnalysis
    \/ GetEmotionPatterns

SpecPatterns == InitAnalytics /\ [][NextPatterns]_vars

(***************************************************************************)
(* get_emotion_trends (analytics.py): one entry per calendar day of the    *)
(* requested range.  A date is the number of the day, 480 steps of 3       *)
(* minutes each; a day average is kept as the exact quotient [num, den].   *)
(***************************************************************************)
\* timestamp.date(), as a day number
Date(ts) == ts \div 480

\* The rows of one day: timestamp >= midnight of the date and < the next midnight.
DayEmotions(recs, current_date) ==
    SelectSeq(recs, LAMBDA r : r.ts >= current_date * 480 /\ r.ts < (current_date + 1) * 480)

\* day_averages
DayAverages(day_emotions) ==
    IF day_emotions # <<>>
    THEN [e \in CanonicalSet |->
             [num |-> Sum([j \in 1..Len(day_emotions) |->
                              GetOrZero(day_emotions[j].emotions, e)]),
              den |-> Len(day_emotions)]]
    ELSE [e \in CanonicalSet |-> Zero]

\* Faulty variant of TrendDates: range(days) instead of range(days + 1).
TrendDatesShort(start_date, days) == [i \in 1..days |-> start_date + (i - 1)]

\* current_date for i in range(days + 1)
TrendDates(start_date, days) == [i \in 1..(days + 1) |-> start_date + (i - 1)]

\* trends_data
TrendsData(recs, start_date, days) ==
    LET dates == TrendDates(start_date, days)
    IN  [n \in 1..Len(dates) |->
            [date |-> dates[n], emotions |-> DayAverages(DayEmotions(recs, dates[n]))]]

\* The 'days' arguments tried, and how long after the newest row the request
\* is made (at once, or a day later; at step 0 or 480 on an empty table).
TrendDays == {-1, 0, 1, 2}
RequestGaps == {0, 480}

\* GET /trends?days=...
GetEmotionTrends ==
    \E days \in TrendDays, gap \in RequestGaps :
        LET now == (IF records = <<>> THEN 0 ELSE records[Len(records)].ts) + gap
            end_date == Date(now)
            start_date == end_date - days
        IN  /\ locals' = [handler |-> "trends", days |-> days,
                          end_date |-> end_date, start_date |-> start_date]
            /\ response' = [handler |-> "trends", status |-> 200,
                            message |-> "Emotion trends retrieved successfully",
                            data |-> TrendsData(records, start_date, days)]
            /\ UNCHANGED <<records, recArgs, recOut, history, scores, analyzer, calls, heap, db, requests>>

NextTrends ==
    \/ SaveEmotionAt
    \/ CreateSampleData
    \/ GetEmotionTrends

SpecTrends == InitAnalytics /\ [][NextTrends]_vars

(***************************************************************************)
(* The session routes of emotion.py on the emotion_sessions and            *)
(* emotion_records tables, with two request threads.  A handler that reads *)
(* a row and later commits a change to it is two steps: what it loaded is  *)
(* kept in 'requests' until its commit.  A nullable column is <<>> for     *)
(* NULL and <<v>> otherwise; a session id is its text's identity and its   *)
(* length; a time is the number of the write that set it.                  *)
(***************************************************************************)
MaxSessions == 1
MaxSaves == 2

Users == {1, 2}
DemoUser == 3

\* str(uuid.uuid4()): 36 characters, never issued before
Uuid(n) == [token |-> n, len |-> 36]

\* Session ids a client can make up: one of valid length and one too short.
ClientMade == [token |-> 100, len |-> 14]
TooShort == [token |-> 101, len |-> 3]

\* An emotions object with a value above 1.
TooLarge == Dict(Canonical, <<1200, 0, 0, 0, 0, 0, 0>>)

\* Request bodies of POST /save without their session_id: no JSON at all, a
\* valid pair, and pairs with a key missing or a value out of range.
Body(data, emotions, confidence_scores) ==
    [data |-> data, emotions |-> emotions, confidence_scores |-> confidence_scores]

SaveBodies ==
    {Body(FALSE, <<>>, <<>>), Body(TRUE, Graded, Graded), Body(TRUE, Partial, Graded),
     Body(TRUE, TooLarge, Graded), Body(TRUE, Graded, Partial)}

\* validate_session_id, on the stripped id
ValidateSessionId(session_id) == session_id.len >= 10 /\ session_id.len <= 255

\* Faulty variant of FindSession: the owner is not part of the filter.
FindSessionOfAnyUser(sessions, session_id, user_id) ==
    {i \in 1..Len(sessions) : sessions[i].session_id = session_id}

\* EmotionSession.query.filter_by(session_id=..., user_id=...): the matching rows
FindSession(sessions, session_id, user_id) ==
    {i \in 1..Len(sessions) :
        sessions[i].session_id = session_id /\ sessions[i].user_id = user_id}

\* EmotionSession(user_id=..., session_id=..., start_time=...): a column
\* default is applied by the INSERT, so total_detections is None until then.
NewSession(user_id, session_id) ==
    [user_id |-> user_id, session_id |-> session_id,
     end_time |-> <<>>, total_detections |-> <<>>]

\* The row the INSERT writes: total_detections takes its default 0.
Inserted(session) ==
    IF session.total_detections = <<>> THEN [session EXCEPT !.total_detections = <<0>>]
    ELSE session

Reply(handler, status, message, user_id, session_id) ==
    [handler |-> handler, status |-> status, message |-> message,
     user_id |-> user_id, session_id |-> session_id]

\* The session ids a request can name: those issued so far and the made-up ones.
KnownSessionIds == {db.sessions[i].session_id : i \in 1..Len(db.sessions)} \cup {ClientMade}

\* POST /session/start
StartSession ==
    \E user_id \in Users :
        /\ Cardinality({i \in 1..Len(db.sessions) : db.sessions[i].user_id \in Users}) < MaxSessions
        /\ LET session == NewSession(user_id, Uuid(Len(db.sessions) + 1))
           IN  /\ db' = [db EXCEPT !.sessions = Append(@, Inserted(session))]
               /\ response' = Reply("start_session", 201, "Session started successfully",
                                    user_id, session.session_id)
        /\ UNCHANGED <<recArgs, recOut, records, locals, history, scores,
                       analyzer, calls, heap, requests>>

\* init_db.py create_sample_data: an ended session of the demo user with
\* total_detections = 3 and three rows, written without validation.
CreateSampleRows ==
    /\ \A i \in 1..Len(db.sessions) : db.sessions[i].user_id # DemoUser
    /\ LET sample_session == [user_id |-> DemoUser, session_id |-> Uuid(0),
                              end_time |-> <<1>>, total_detections |-> <<3>>]
       IN  db' = [sessions |-> Append(db.sessions, sample_session),
                  records |-> db.records \o
                      [n \in 1..Len(SampleEmotions) |->
                          [user_id |-> DemoUser, session_id |-> Uuid(0),
                           emotions_json |-> SampleEmotions[n],
                           confidence_scores |-> SampleEmotions[n]]]]
    /\ UNCHANGED <<recArgs, recOut, records, response, locals, history, scores,
                   analyzer, calls, heap, requests>>

\* save_emotion from its entry to 'session.total_detections += 1': the
\* validations, the session lookup, and the read of the counter.  Adding 1 to
\* the None of a session object that was never flushed raises TypeError, which
\* the handler answers with a rollback and 500.
SaveEmotionBegin(t) ==
    /\ requests[t].pc = "idle"
    /\ Cardinality({n \in 1..Len(db.records) : db.records[n].user_id \in Users})
           + Cardinality({o \in Callers : requests[o].pc = "save"}) < MaxSaves
    /\ \E user_id \in Users, body \in SaveBodies,
          session_id \in KnownSessionIds \cup {TooShort} :
           LET data == body.data
               emotions == body.emotions
               confidence_scores == body.confidence_scores
               found == FindSession(db.sessions, session_id, user_id)
               session == IF found = {} THEN NewSession(user_id, session_id)
                          ELSE db.sessions[CHOOSE i \in found : TRUE]
               answer(status, message) ==
                   /\ response' = Reply("save_emotion", status, message, user_id, session_id)
                   /\ UNCHANGED requests
           IN  IF ~data THEN answer(400, "No data provided")
               ELSE IF ~ValidateEmotionData(emotions)
                    THEN answer(400, "Invalid emotion data format")
               ELSE IF ~ValidateEmotionData(confidence_scores)
                    THEN answer(400, "Invalid confidence scores format")
               ELSE IF ~ValidateSessionId(session_id)
                    THEN answer(400, "Invalid session ID")
               ELSE IF session.total_detections = <<>>
                    THEN answer(500, "Failed to save emotion data")
               ELSE /\ requests' = [requests EXCEPT ![t] =
                                       [pc |-> "save", user_id |-> user_id,
                                        session_id |-> session_id,
                                        session |-> CHOOSE i \in found : TRUE,
                                        emotions_json |-> emotions,
                                        confidence_scores |-> confidence_scores,
                                        total_detections |-> session.total_detections[1] + 1]]
                    /\ UNCHANGED response
    /\ UNCHANGED <<recArgs, recOut, records, locals, history, scores,
                   analyzer, calls, heap, db>>

\* db.session.commit() of save_emotion: the record is inserted and the session
\* row is updated to the counter value computed from what was loaded.
SaveEmotionCommit(t) ==
    /\ requests[t].pc = "save"
    /\ LET r == requests[t]
       IN  /\ db' = [db EXCEPT
                        !.sessions[r.session].total_detections = <<r.total_detections>>,
                        !.records = Append(@, [user_id |-> r.user_id,
                                               session_id |-> r.session_id,
                                               emotions_json |-> r.emotions_json,
                                               confidence_scores |-> r.confidence_scores])]
           /\ response' = Reply("save_emotion", 201, "Emotion data saved successfully",
                                r.user_id, r.session_id)
    /\ requests' = [requests EXCEPT ![t] = Idle]
    /\ UNCHANGED <<recArgs, recOut, records, locals, history, scores,
                   analyzer, calls, heap>>

\* end_session up to the test of session.end_time
EndSessionBegin(t) ==
    /\ requests[t].pc = "idle"
    /\ \E user_id \in Users, session_id \in KnownSessionIds :
           LET found == FindSession(db.sessions, session_id, user_id)
               answer(status, message) ==
                   /\ response' = Reply("end_session", status, message, user_id, session_id)
                   /\ UNCHANGED requests
           IN  IF found = {} THEN answer(404, "Session not found")
               ELSE IF db.sessions[CHOOSE i \in found : TRUE].end_time # <<>>
                    THEN answer(400, "Session already ended")
               ELSE /\ requests' = [requests EXCEPT ![t] =
                                       [pc |-> "end", user_id |-> user_id,
                                        session_id |-> session_id,
                                        session |-> CHOOSE i \in found : TRUE]]
                    /\ UNCHANGED response
    /\ UNCHANGED <<recArgs, recOut, records, locals, history, scores,
                   analyzer, calls, heap, db>>

\* session.end_time = datetime.utcnow(); db.session.commit()
EndSessionCommit(t) ==
    /\ requests[t].pc = "end"
    /\ db' = [db EXCEPT !.sessions[requests[t].session].end_time =
                            IF @ = <<>> THEN <<1>> ELSE <<@[1] + 1>>]
    /\ response' = Reply("end_session", 200, "Session ended successfully",
                         requests[t].user_id, requests[t].session_id)
    /\ requests' = [requests EXCEPT ![t] = Idle]
    /\ UNCHANGED <<recArgs, recOut, records, locals, history, scores,
                   analyzer, calls, heap>>

NextSessions ==
    \/ StartSession
    \/ CreateSampleRows
    \/ \E t \in Callers :
           \/ SaveEmotionBegin(t)
           \/ SaveEmotionCommit(t)
           \/ EndSessionBegin(t)
           \/ EndSessionCommit(t)

SpecSessions == InitAnalytics /\ [][NextSessions]_vars

\* The routes that write emotion_records, without the end of sessions.
NextSaves ==
    \/ StartSession
    \/ CreateSampleRows
    \/ \E t \in Callers :
           \/ SaveEmotionBegin(t)
           \/ SaveEmotionCommit(t)

SpecSaves == InitAnalytics /\ [][NextSaves]_vars

(***************************************************************************)
(* Claims about the recommendation engine, checked under SpecRec.          *)
(***************************************************************************)
Called == recArgs # <<>>

Args == recArgs[1]

WellnessFires == Args.wellness_score < WellnessLow
StabilityFires == Args.stability_score < StabilityLow

\* The override items that fire, wellness before stability.
Overrides ==
    (IF WellnessFires THEN <<"wellness">> ELSE <<>>)
        \o (IF StabilityFires THEN <<"stability">> ELSE <<>>)

BaseOfCall == BaseRecommendations(Args.dominant_emotion, Args.confidence)

\* C1: the result is the first 4 elements of [wellness item if wellness < 0.3] ++
\* [stability item if stability < 0.4] ++ base list; so it never has more than 4
\* entries, and when both overrides fire the wellness item is at index 0 and the
\* stability item at index 1.
C1_FirstFourOfConcat ==
    Called =>
        /\ recOut = SubSeq(Overrides \o BaseOfCall, 1, Min(4, Len(Overrides \o BaseOfCall)))
        /\ Len(recOut) <= 4
        /\ (WellnessFires /\ StabilityFires) =>
                /\ recOut[1] = "wellness"
                /\ recOut[2] = "stability"

C1_Witness ==
    /\ Called
    /\ WellnessFires /\ StabilityFires
    /\ Len(BaseOfCall) = 3
    /\ Len(recOut) = 4

\* C2: with both overrides firing and a base list of 3 items the result is
\* [wellness, stability, base[0], base[1]] (only the third base item is dropped,
\* base order kept); in every other input combination the whole base list is the
\* tail of the result, so no base item is dropped.
C2_OnlyThirdBaseItemDropped ==
    Called =>
        IF WellnessFires /\ StabilityFires /\ Len(BaseOfCall) = 3
        THEN recOut = <<"wellness", "stability", BaseOfCall[1], BaseOfCall[2]>>
        ELSE /\ Len(recOut) >= Len(BaseOfCall)
             /\ Last(recOut, Len(BaseOfCall)) = BaseOfCall

C2_Witness ==
    /\ Called
    /\ Args = [dominant_emotion |-> "sad", confidence |-> 800,
               wellness_score |-> 200, stability_score |-> 200]
    /\ recOut = <<"wellness", "stability", "support", "connection">>

PeaksRan == locals.handler = "peaks" /\ records # <<>>

\* Positions <<i, j>> of the (record, emotion) pairs of the stored rows.
Pairs ==
    UNION {{<<i, j>> : j \in 1..Len(records[i].emotions)} : i \in 1..Len(records)}

PairTs(p) == records[p[1]].ts
PairKey(p) == records[p[1]].emotions[p[2]][1]
PairValue(p) == records[p[1]].emotions[p[2]][2]

\* p comes before q in source order, or is q
Before(p, q) == p[1] < q[1] \/ (p[1] = q[1] /\ p[2] <= q[2])

ReportedIn(list, p) ==
    \E n \in 1..Len(list) :
        /\ list[n].timestamp = PairTs(p)
        /\ list[n].emotion = PairKey(p)
        /\ list[n].value = PairValue(p)

\* v > 1.5 * baseline, on the exact mean num / den
AboveBaseline(p) ==
    2 * PairValue(p) * locals.baselines[PairKey(p)].den
        > 3 * locals.baselines[PairKey(p)].num

\* C4: before the truncation, a value v of emotion e of a record is reported as a
\* peak iff v > 1.5 * baseline[e] and v > 0.7, both strict; so a value above 1.5 *
\* baseline that is <= 0.7 is no peak, and a value > 0.7 that is <= 1.5 * baseline
\* is no peak.
C4_PeakIffAboveBaselineAndAbsolute ==
    PeaksRan =>
        /\ \A p \in Pairs :
              ReportedIn(locals.peaks, p) <=> (AboveBaseline(p) /\ PairValue(p) > 700)
        /\ Len(locals.peaks)
              = Cardinality({p \in Pairs : AboveBaseline(p) /\ PairValue(p) > 700})

C4_Witness ==
    /\ PeaksRan
    /\ \E p \in Pairs : ReportedIn(locals.peaks, p)
    /\ \E p \in Pairs :
          AboveBaseline(p) /\ PairValue(p) = 700 /\ ~ReportedIn(locals.peaks, p)
    /\ \E p \in Pairs :
          PairValue(p) > 700 /\ ~AboveBaseline(p) /\ ~ReportedIn(locals.peaks, p)

\* C5: before the truncation, a value is reported as an anomaly iff it is > 0.9
\* (exactly 0.9 is not), whatever its baseline and whether or not it is a peak.
C5_AnomalyIffAboveAbsolute ==
    PeaksRan =>
        /\ \A p \in Pairs : ReportedIn(locals.anomalies, p) <=> PairValue(p) > 900
        /\ Len(locals.anomalies) = Cardinality({p \in Pairs : PairValue(p) > 900})

C5_Witness ==
    /\ PeaksRan
    /\ \E p \in Pairs : PairValue(p) = 900 /\ ~ReportedIn(locals.anomalies, p)
    /\ \E p \in Pairs : ReportedIn(locals.anomalies, p) /\ ReportedIn(locals.peaks, p)
    /\ \E p \in Pairs : ReportedIn(locals.anomalies, p) /\ ~ReportedIn(locals.peaks, p)

PeaksAnswered == response.handler = "peaks" /\ records # <<>>

Range(list) == {list[n] : n \in 1..Len(list)}

\* C6: the returned peaks are at most 20, in non-increasing order of intensity,
\* and every detected peak that is left out has an intensity <= that of every
\* returned one.
C6_TopTwentyByIntensity ==
    PeaksAnswered =>
        LET out == response.data.peaks
        IN  /\ Len(out) <= 20
            /\ Len(out) = Min(20, Len(locals.peaks))
            /\ Range(out) \subseteq Range(locals.peaks)
            /\ \A m, n \in 1..Len(out) : m < n => out[m].intensity >= out[n].intensity
            /\ \A x \in Range(locals.peaks) \ Range(out) :
                  \A y \in Range(out) : x.intensity <= y.intensity

C6_Witness ==
    /\ PeaksAnswered
    /\ Len(locals.peaks) > 20
    /\ Len(response.data.peaks) = 20
    /\ response.data.peaks[1].intensity > response.data.peaks[20].intensity
    /\ \E x \in Range(locals.peaks) \ Range(response.data.peaks) :
          x.intensity < response.data.peaks[1].intensity

AnomalyPairs == {p \in Pairs : PairValue(p) > 900}

\* The number of anomalous pairs up to and including p, in source order.
AnomalyRank(p) == Cardinality({q \in AnomalyPairs : Before(q, p)})

\* C7: the returned anomalies are the last (at most 10) detected anomalies in
\* source order (records by ascending timestamp, emotions in the record's own
\* order), not re-ordered by value.
C7_LastTenAnomaliesInSourceOrder ==
    PeaksAnswered =>
        LET out == response.data.anomalies
            total == Cardinality(AnomalyPairs)
        IN  /\ Len(out) = Min(10, total)
            /\ \A n \in 1..Len(out) :
                  \E p \in AnomalyPairs :
                      /\ AnomalyRank(p) = total - Len(out) + n
                      /\ out[n].timestamp = PairTs(p)
                      /\ out[n].emotion = PairKey(p)
                      /\ out[n].value = PairValue(p)

\* More than 10 anomalies, and an older one that is dropped is larger than a newer
\* one that is returned.
C7_Witness ==
    /\ PeaksAnswered
    /\ Cardinality(AnomalyPairs) > 10
    /\ \E p \in AnomalyPairs :
          /\ ~ReportedIn(response.data.anomalies, p)
          /\ \E n \in 1..Len(response.data.anomalies) :
                /\ response.data.anomalies[n].value < PairValue(p)
                /\ response.data.anomalies[n].timestamp > PairTs(p)

\* C8: on an empty record sequence get_emotion_peaks answers without error with
\* peaks == [], anomalies == [] and an empty baseline map.
C8_EmptyInputHasEmptyBaselineMap ==
    (response.handler = "peaks" /\ records = <<>>) =>
        /\ response.status = 200
        /\ response.data.peaks = <<>>
        /\ response.data.anomalies = <<>>
        /\ "baselines" \in DOMAIN response.data
        /\ DOMAIN response.data.baselines = {}

Occurrences(label) == {p \in Pairs : PairKey(p) = label}

RECURSIVE SumOfPairs(_)
SumOfPairs(S) ==
    IF S = {} THEN 0
    ELSE LET p == CHOOSE p \in S : TRUE
         IN  PairValue(p) + SumOfPairs(S \ {p})

\* C9: the baseline map has exactly one entry per label that occurs in at least
\* one record, and its value is the arithmetic mean of that label's values over
\* the records in which it occurs; a label that occurs in no record has no entry.
C9_BaselineIsMeanOverOccurrences ==
    PeaksRan =>
        /\ DOMAIN locals.baselines = {PairKey(p) : p \in Pairs}
        /\ \A label \in DOMAIN locals.baselines :
              /\ locals.baselines[label].den > 0
              /\ locals.baselines[label].num * Cardinality(Occurrences(label))
                    = SumOfPairs(Occurrences(label)) * locals.baselines[label].den

\* The sample rows: happy 0.85 and 0.28 give 0.565, 'surprised' occurs in one row
\* of three, 'sad' in none.
C9_Witness ==
    /\ PeaksRan
    /\ Len(records) = 3
    /\ Cardinality(Occurrences("happy")) = 2
    /\ locals.baselines["happy"].num = 565 * locals.baselines["happy"].den
    /\ Cardinality(Occurrences("surprised")) = 1
    /\ "sad" \notin DOMAIN locals.baselines

\* The rows without their non-canonical keys.
StripEmotions(emotions) == SelectSeq(emotions, LAMBDA pair : pair[1] \in CanonicalSet)

Strip(recs) == [i \in 1..Len(recs) |-> [recs[i] EXCEPT !.emotions = StripEmotions(@)]]

SameQuotient(a, b) == a.num * b.den = b.num * a.den

SameQuotientMap(f, g) ==
    /\ DOMAIN f = DOMAIN g
    /\ \A k \in DOMAIN f : SameQuotient(f[k], g[k])

\* C10: keys outside the seven canonical labels are ignored by the aggregations:
\* the rows and the rows without their non-canonical keys yield the same
\* baselines, peaks and anomalies, the same emotion-correlation map and the same
\* stress split, and no non-canonical key appears in these outputs.
C10_NonCanonicalKeysIgnored ==
    /\ PeaksAnswered =>
          /\ response.data = PeaksResponse(Strip(records)).data
          /\ DOMAIN response.data.baselines \subseteq CanonicalSet
          /\ \A x \in Range(response.data.peaks) \cup Range(response.data.anomalies) :
                x.emotion \in CanonicalSet
    /\ (response.handler = "patterns" /\ records # <<>>) =>
          LET stripped == PatternResponse(Strip(records)).data
          IN  /\ SameQuotientMap(response.data.emotionCorrelations,
                                 stripped.emotionCorrelations)
              /\ SameQuotientMap(response.data.stressLevels, stripped.stressLevels)
              /\ DOMAIN response.data.emotionCorrelations \subseteq CanonicalSet

(***************************************************************************)
(* Claims about the analyzer scores, checked under SpecScores.             *)
(***************************************************************************)
Predicted == scores.handler = "predict_mood"

\* The positions of a list that lie among its last n.
LastPositions(list, n) == {i \in 1..Len(list) : i > Len(list) - n}

\* The positions among the last 10 whose record has a positive total intensity.
ScoredPositions(list) == {i \in LastPositions(list, 10) : TotalIntensity(list[i]) > 0}

\* clamp((weighted_sum + total_intensity) / (2 * total_intensity), 0, 1)
ClampedRatio(record) ==
    LET num == RecordScore(record) + 1000 * TotalIntensity(record)
        den == 2000 * TotalIntensity(record)
    IN  IF num < 0 THEN Zero ELSE IF num > den THEN One ELSE Reduce([num |-> num, den |-> den])

RECURSIVE SumOverPositions(_, _)
SumOverPositions(list, positions) ==
    IF positions = {} THEN Zero
    ELSE LET i == CHOOSE i \in positions : TRUE
         IN  AddQ(ClampedRatio(list[i]), SumOverPositions(list, positions \ {i}))

\* score = the mean of the clamped ratios over the scored positions, 0.5 if none
IsWellnessOf(score, list) ==
    LET positions == ScoredPositions(list)
    IN  IF positions = {} THEN EqualQ(score, Half)
        ELSE EqualQ([num |-> score.num * Cardinality(positions), den |-> score.den],
                    SumOverPositions(list, positions))

\* C11: calculate_wellness_score returns the mean, over the records among the
\* last 10 whose total intensity is above 0, of
\* clamp((weighted_sum + total_intensity) / (2 * total_intensity), 0, 1), and
\* 0.5 when there is no such record (the empty history included); the result
\* lies in [0, 1], is 1.0 for the single record {happy: 1.0} and 0.0 for the
\* single record {angry: 1.0}.
C11_WellnessIsMeanOfClampedRatios ==
    Predicted =>
        /\ IsWellnessOf(scores.wellness_score, history)
        /\ ~LessQ(scores.wellness_score, Zero) /\ ~LessQ(One, scores.wellness_score)
        /\ history = <<HappyOnly>> => EqualQ(scores.wellness_score, One)
        /\ history = <<AngryOnly>> => EqualQ(scores.wellness_score, Zero)
        /\ "recent" \in DOMAIN scores =>
              /\ IsWellnessOf(scores.recent_wellness, scores.recent)
              /\ IsWellnessOf(scores.earlier_wellness, scores.earlier)

\* A history of more than 10 records whose oldest record would pull the mean
\* below 1, with a record of zero intensity nowhere: the score is 1.
C11_Witness ==
    /\ Predicted
    /\ Len(history) > 10
    /\ history[1] = AngryOnly
    /\ \A i \in 2..Len(history) : history[i] = HappyOnly
    /\ EqualQ(scores.wellness_score, One)

\* sum over the positions of (n * value - sum of values)^2, for one emotion:
\* n^3 times the population variance of its values (missing key = 0).
RECURSIVE SquaredDeviations(_, _, _, _)
SquaredDeviations(list, positions, emotion, total) ==
    IF positions = {} THEN 0
    ELSE LET i == CHOOSE i \in positions : TRUE
             dev == Cardinality(LastPositions(list, 5)) * GetOrZero(list[i], emotion) - total
         IN  dev * dev + SquaredDeviations(list, positions \ {i}, emotion, total)

RECURSIVE ValueTotal(_, _, _)
ValueTotal(list, positions, emotion) ==
    IF positions = {} THEN 0
    ELSE LET i == CHOOSE i \in positions : TRUE
         IN  GetOrZero(list[i], emotion) + ValueTotal(list, positions \ {i}, emotion)

\* 1 - avg_variance / 0.3 for the last 5 records of a list, avg_variance the
\* mean over the seven canonical emotions of the population variance.
UnclampedStability(list) ==
    LET positions == LastPositions(list, 5)
        n == Cardinality(positions)
        deviations == Sum([e \in 1..Len(Canonical) |->
                              SquaredDeviations(list, positions, Canonical[e],
                                                ValueTotal(list, positions, Canonical[e]))])
        den == 7 * n * n * n * 300000
    IN  Reduce([num |-> den - deviations, den |-> den])

\* C12: calculate_stability_score returns exactly 0.7 for fewer than 3 records;
\* otherwise min(1, max(0.1, 1 - avg_variance / 0.3)), avg_variance being the
\* mean over the seven canonical emotions of the population variance of that
\* emotion's values (missing key = 0) across the last 5 records only; the
\* result lies in [0.1, 1] and is 1.0 when those records are identical.
C12_StabilityFromVarianceOfLastFive ==
    Predicted =>
        /\ Len(history) < 3 => EqualQ(scores.stability_score, Thousandths(700))
        /\ Len(history) >= 3 =>
              LET raw == UnclampedStability(history)
                  floored == IF LessQ(raw, Thousandths(100)) THEN Thousandths(100) ELSE raw
              IN  EqualQ(scores.stability_score,
                         IF LessQ(One, floored) THEN One ELSE floored)
        /\ ~LessQ(scores.stability_score, Thousandths(100))
        /\ ~LessQ(One, scores.stability_score)
        /\ (/\ Len(history) >= 3
            /\ \A i, j \in LastPositions(history, 5) : history[i] = history[j])
              => EqualQ(scores.stability_score, One)

\* Six records, the last five identical and the oldest one different: the
\* oldest record is outside the window and the score is 1.
C12_Witness ==
    /\ Predicted
    /\ Len(history) = 6
    /\ history[1] = AngryOnly
    /\ \A i \in 2..6 : history[i] = NeutralSad
    /\ EqualQ(scores.stability_score, One)

\* sum over the last n records of position-in-window * value of one emotion
\* (value 0 when the record lacks the key)
RECURSIVE RecencyWeighted(_, _, _)
RecencyWeighted(list, positions, emotion) ==
    IF positions = {} THEN 0
    ELSE LET i == CHOOSE i \in positions : TRUE
             place == i - (Len(list) - Cardinality(LastPositions(list, 5)))
         IN  place * GetOrZero(list[i], emotion)
             + RecencyWeighted(list, positions \ {i}, emotion)

\* The canonical emotions that occur as a key in the last 5 records.
Occurring(list) ==
    {e \in CanonicalSet : \E i \in LastPositions(list, 5) : e \in Keys(list[i])}

\* C13: get_dominant_emotion_trend returns ('neutral', 0.0) for an empty
\* history and when no canonical emotion occurs in the window; otherwise, over
\* the last N = min(5, len) records taken oldest to newest with weight
\* (i + 1) / N for index i, it returns an emotion that maximizes
\* (sum of weight * value) / (sum of weights), with that value capped at 1.0.
C13_DominantIsRecencyWeightedMaximum ==
    Predicted =>
        LET window == LastPositions(history, 5)
            n == Cardinality(window)
            weights == (n * (n + 1)) \div 2
        IN  IF Occurring(history) = {}
            THEN scores.dominant_emotion = "neutral" /\ EqualQ(scores.confidence, Zero)
            ELSE /\ scores.dominant_emotion \in Occurring(history)
                 /\ \A e \in Occurring(history) :
                        RecencyWeighted(history, window, e)
                            <= RecencyWeighted(history, window, scores.dominant_emotion)
                 /\ LET value == Reduce([num |-> RecencyWeighted(history, window,
                                                                  scores.dominant_emotion),
                                         den |-> 1000 * weights])
                    IN  EqualQ(scores.confidence, IF LessQ(One, value) THEN One ELSE value)

\* The newer of two records with the same value wins, and a record older than
\* the window does not count: six records, angry three times and then happy
\* three times, answer happy with (3 + 4 + 5) / 15.
C13_Witness ==
    /\ Predicted
    /\ history = <<AngryOnly, AngryOnly, AngryOnly, HappyOnly, HappyOnly, HappyOnly>>
    /\ scores.dominant_emotion = "happy"
    /\ EqualQ(scores.confidence, [num |-> 12, den |-> 15])

\* An emotion object with its canonical keys moved to the front in canonical
\* order; the other pairs follow in their own order.
CanonicalKeyOrder(record) ==
    LET present == SelectSeq(Canonical, LAMBDA k : k \in Keys(record))
    IN  [j \in 1..Len(present) |-> <<present[j], Get(record, present[j])>>]
        \o SelectSeq(record, LAMBDA p : p[1] \notin CanonicalSet)

\* C14: ties for the dominant emotion, in the windowed trend and in the
\* per-record dominant of the stress classifier, are resolved by one fixed
\* order over the canonical list: the emotion chosen is the same when the keys
\* of the input records are written in another order.
C14_TieBreakIndependentOfKeyOrder ==
    Predicted =>
        LET reordered == [i \in 1..Len(history) |-> CanonicalKeyOrder(history[i])]
        IN  /\ scores.dominant_emotion = GetDominantEmotionTrend(reordered, Lookback)[1]
            /\ \A i \in 1..Len(history) :
                   /\ MaxEmotion(history[i])[1] = MaxEmotion(reordered[i])[1]
                   /\ StressBucket(history[i]) = StressBucket(reordered[i])

TrendRan == Predicted /\ Len(history) >= 5

\* C15: the trend is 'stable' for every history of fewer than 5 records
\* (4 included); with 5 or more records it is 'improving' iff
\* recent_wellness - earlier_wellness > 0.1, 'declining' iff that difference
\* is < -0.1, and 'stable' otherwise, a difference of exactly 0.1 or -0.1
\* being 'stable'; exactly one label is assigned.
C15_TrendFromWellnessDifference ==
    Predicted =>
        /\ scores.trend \in {"improving", "declining", "stable"}
        /\ Len(history) < 5 => scores.trend = "stable"
        /\ Len(history) >= 5 =>
              LET difference == SubQ(scores.recent_wellness, scores.earlier_wellness)
              IN  /\ scores.trend = "improving" <=> LessQ(Thousandths(100), difference)
                  /\ scores.trend = "declining" <=> LessQ(difference, Thousandths(-100))
                  /\ (EqualQ(difference, Thousandths(100))
                        \/ EqualQ(difference, Thousandths(-100)))
                         => scores.trend = "stable"

\* The recent window scores exactly 0.1 above the earlier one: stable.
C15_Witness ==
    /\ TrendRan
    /\ EqualQ(SubQ(scores.recent_wellness, scores.earlier_wellness), Thousandths(100))
    /\ scores.trend = "stable"

\* C16: for a history of 5 or more records recent_wellness is the wellness of
\* the last 3 records and earlier_wellness the wellness of exactly the 3
\* records immediately before them: the two windows are disjoint, adjacent and
\* hold 3 records each.
C16_TrendWindowsAreThreeAndThree ==
    TrendRan =>
        /\ Len(scores.recent) = 3
        /\ Len(scores.earlier) = 3
        /\ scores.recent = SubSeq(history, Len(history) - 2, Len(history))
        /\ scores.earlier = SubSeq(history, Len(history) - 5, Len(history) - 3)
        /\ IsWellnessOf(scores.recent_wellness, scores.recent)
        /\ IsWellnessOf(scores.earlier_wellness, scores.earlier)

(***************************************************************************)
(* Claims about the pattern handlers, checked under SpecPatterns (C18      *)
(* under SpecAnalytics).                                                   *)
(***************************************************************************)
PatternsAnswered == response.handler = "patterns"

\* The rows whose largest value belongs to one of the given emotions.
RowsWithMaxIn(emotions) ==
    {i \in 1..Len(records) : MaxEmotion(records[i].emotions)[1] \in emotions}

\* C17: every record is counted in exactly one stress bucket by its max-value
\* emotion: high if it is angry, fearful, disgusted or sad, low if it is
\* happy, medium otherwise (a record with an empty vector included); the
\* three counts sum to the number of records and the three percentages to
\* 100; for an empty record set each percentage is 33.3.
C17_StressBucketsPartitionRecords ==
    /\ StressBucket(<<>>) = "medium"
    /\ PatternsAnswered =>
          LET levels == response.data.stressLevels
          IN  IF records = <<>>
              THEN \A b \in {"low", "medium", "high"} :
                       SameQuotient(levels[b], [num |-> 333, den |-> 10])
              ELSE LET high == RowsWithMaxIn({"angry", "fearful", "disgusted", "sad"})
                       low == RowsWithMaxIn({"happy"})
                       medium == (1..Len(records)) \ (high \cup low)
                   IN  /\ locals.high_stress_count = Cardinality(high)
                       /\ locals.low_stress_count = Cardinality(low)
                       /\ locals.medium_stress_count = Cardinality(medium)
                       /\ locals.high_stress_count + locals.low_stress_count
                              + locals.medium_stress_count = Len(records)
                       /\ SameQuotient(levels.high,
                                       [num |-> 100 * Cardinality(high), den |-> Len(records)])
                       /\ SameQuotient(levels.low,
                                       [num |-> 100 * Cardinality(low), den |-> Len(records)])
                       /\ SameQuotient(levels.medium,
                                       [num |-> 100 * Cardinality(medium), den |-> Len(records)])
                       /\ levels.high.den = levels.low.den
                       /\ levels.low.den = levels.medium.den
                       /\ levels.high.num + levels.low.num + levels.medium.num
                              = 100 * levels.high.den

\* Three rows, one in each bucket.
C17_Witness ==
    /\ PatternsAnswered
    /\ Len(records) = 3
    /\ locals.high_stress_count = 1
    /\ locals.low_stress_count = 1
    /\ locals.medium_stress_count = 1

\* C18: the correlation map gives each emotion's percentage as
\* (sum of that emotion's values) / (grand total of all values) * 100; when
\* the grand total is 0 (no records included) the map is empty and nothing is
\* divided; otherwise the percentages sum to 100.
C18_CorrelationsArePercentagesOfGrandTotal ==
    PatternsAnswered =>
        LET correlations == response.data.emotionCorrelations
            grand_total == SumOfPairs(Pairs)
            labels == {PairKey(p) : p \in Pairs}
        IN  IF grand_total = 0
            THEN DOMAIN correlations = {}
            ELSE /\ DOMAIN correlations = labels
                 /\ \A k \in labels :
                        /\ correlations[k].num = 100 * SumOfPairs(Occurrences(k))
                        /\ correlations[k].den = grand_total
                 /\ SumOfMap([k \in labels |-> correlations[k].num], labels)
                        = 100 * grand_total

\* Rows exist and every value is 0: the grand total is 0 and the map is empty.
C18_Witness ==
    /\ PatternsAnswered
    /\ Len(records) >= 2
    /\ \A p \in Pairs : PairValue(p) = 0
    /\ DOMAIN response.data.emotionCorrelations = {}

EmotionPatternsAnswered == response.handler = "emotion_patterns"

\* The rows that fall in an hour of day, and in a day of week.
RowsInHour(h) == {i \in 1..Len(records) : Hour(records[i].ts) = h}

RowsOnDay(d) == {i \in 1..Len(records) : Weekday(records[i].ts) = d}

\* C19: for every record sequence, the empty one included, the hourly output
\* has exactly one entry per hour 0..23 in ascending order and the weekday
\* output exactly one entry per weekday 0..6 (Monday = 0); every entry
\* carries all seven canonical emotions, and a bucket without records gives 0
\* for each of them.
C19_EveryHourAndWeekdayListed ==
    EmotionPatternsAnswered =>
        LET hourly == response.data.hourly_patterns
            daily == response.data.daily_patterns
        IN  /\ Len(hourly) = 24
            /\ Len(daily) = 7
            /\ \A n \in 1..24 :
                   /\ hourly[n].hour = n - 1
                   /\ DOMAIN hourly[n] = {"hour"} \cup CanonicalSet
                   /\ RowsInHour(n - 1) = {} => \A e \in CanonicalSet : hourly[n][e] = 0
            /\ \A n \in 1..7 :
                   /\ daily[n].day_num = n - 1
                   /\ daily[n].day = DayNames[n]
                   /\ DOMAIN daily[n] = {"day", "day_num"} \cup CanonicalSet
                   /\ RowsOnDay(n - 1) = {} => \A e \in CanonicalSet : daily[n][e] = 0
            /\ DayNames[1] = "Monday"

\* Three rows in two hours of two days: the other hours and days are listed
\* with 0 for every emotion.
C19_Witness ==
    /\ EmotionPatternsAnswered
    /\ Len(records) = 3
    /\ Cardinality({Hour(records[i].ts) : i \in 1..3}) = 2
    /\ Cardinality({Weekday(records[i].ts) : i \in 1..3}) = 2
    /\ \E n \in 1..24 : response.data.hourly_patterns[n].sad > 0

\* The rows of a set that carry an emotion as a key.
Carrying(rows, emotion) == {i \in rows : emotion \in Keys(records[i].emotions)}

RECURSIVE SumOfRows(_, _)
SumOfRows(rows, emotion) ==
    IF rows = {} THEN 0
    ELSE LET i == CHOOSE i \in rows : TRUE
         IN  GetOrZero(records[i].emotions, emotion) + SumOfRows(rows \ {i}, emotion)

\* The number of (row, bucket) pairs, over a map from buckets to row sets,
\* in which the row carries the emotion.
RECURSIVE CountOver(_, _, _)
CountOver(rowsOf, buckets, emotion) ==
    IF buckets = {} THEN 0
    ELSE LET b == CHOOSE b \in buckets : TRUE
         IN  Cardinality(Carrying(rowsOf[b], emotion))
             + CountOver(rowsOf, buckets \ {b}, emotion)

\* Every row lies in one hour bucket and in one weekday bucket.
OneBucketEach ==
    /\ \A i \in 1..Len(records) :
          /\ Cardinality({h \in 0..23 : i \in RowsInHour(h)}) = 1
          /\ Cardinality({d \in 0..6 : i \in RowsOnDay(d)}) = 1
    /\ \A e \in CanonicalSet :
          /\ CountOver([h \in 0..23 |-> RowsInHour(h)], 0..23, e) = Cardinality(Carrying(1..Len(records), e))
          /\ CountOver([d \in 0..6 |-> RowsOnDay(d)], 0..6, e) = Cardinality(Carrying(1..Len(records), e))
          /\ \A h \in 0..23 :
                Len(PatternValues(locals.hour_patterns, h, e))
                    = Cardinality(Carrying(RowsInHour(h), e))
          /\ \A d \in 0..6 :
                Len(PatternValues(locals.day_patterns, d, e))
                    = Cardinality(Carrying(RowsOnDay(d), e))

WithOlderRecords(older) == older \o Last(history, 10)

\* C25: for every history with more than 10 records calculate_wellness_score
\* equals calculate_wellness_score of its last 10 records: changing, adding or
\* removing a record older than the 10 most recent does not change the score.
C25_WellnessDependsOnLastTenOnly ==
    (Predicted /\ Len(history) > 10) =>
        /\ EqualQ(scores.wellness_score, CalculateWellnessScore(Last(history, 10)))
        /\ \A x \in ScoreInputs, y \in ScoreInputs :
               /\ EqualQ(scores.wellness_score,
                         CalculateWellnessScore(WithOlderRecords(<<x>>)))
               /\ EqualQ(scores.wellness_score,
                         CalculateWellnessScore(WithOlderRecords(<<x, y>>)))

\* Eleven records whose oldest one scores differently from the mean of the
\* other ten.
C25_Witness ==
    /\ Predicted
    /\ Len(history) = 11
    /\ history[1] = HappyOnly
    /\ \E i \in 2..11 : history[i] = AngryOnly
    /\ \E i \in 2..11 : history[i] = HappyOnly
    /\ LessQ(scores.wellness_score, One)

\* C30: for record sequences whose values all lie in [0, 1], every reported
\* peak has a baseline > 0 and an intensity value / baseline >= 1.5 (shown
\* with 2 decimals); the fallback intensity 1 of a zero baseline is never
\* returned, and an emotion observed in one record only never yields a peak.
C30_PeaksHavePositiveBaseline ==
    PeaksAnswered =>
        \A n \in 1..Len(response.data.peaks) :
            LET peak == response.data.peaks[n]
                baseline == locals.baselines[peak.emotion]
            IN  /\ baseline.num > 0
                /\ peak.baseline > 0
                /\ peak.intensity >= 150
                /\ peak.intensity = Round(peak.value * baseline.den * 100, baseline.num)
                /\ 2 * peak.value * baseline.den >= 3 * baseline.num
                /\ Cardinality({p[1] : p \in Occurrences(peak.emotion)}) >= 2

\* A peak is reported while another emotion, seen in one record only, has a
\* value above 0.7 there.
C30_Witness ==
    /\ PeaksAnswered
    /\ Len(response.data.peaks) > 0
    /\ \E p \in Pairs :
          /\ PairValue(p) > 700
          /\ Cardinality({q[1] : q \in Occurrences(PairKey(p))}) = 1

(***************************************************************************)
(* Claim about the calendar-day aggregation, checked under SpecTrends.     *)
(***************************************************************************)
TrendsAnswered == response.handler = "trends"

RowsOnDate(date) == {i \in 1..Len(records) : Date(records[i].ts) = date}

\* C21: for a requested range of d >= 0 days the calendar-day aggregation
\* returns exactly d + 1 entries, one per consecutive date from today - d to
\* today in ascending order, none repeated or skipped; each record is
\* averaged into the entry of its own calendar date and no other, and a date
\* without record has the zero vector.
C21_OneEntryPerDateOfRange ==
    (TrendsAnswered /\ locals.days >= 0) =>
        LET data == response.data
        IN  /\ Len(data) = locals.days + 1
            /\ \A n \in 1..Len(data) :
                   /\ data[n].date = locals.end_date - locals.days + (n - 1)
                   /\ DOMAIN data[n].emotions = CanonicalSet
                   /\ \A e \in CanonicalSet :
                          LET rows == RowsOnDate(data[n].date)
                              average == data[n].emotions[e]
                          IN  /\ average.den > 0
                              /\ IF rows = {} THEN average.num = 0
                                 ELSE average.num * Cardinality(rows)
                                          = SumOfRows(rows, e) * average.den
            /\ data[Len(data)].date = locals.end_date

\* A range of three dates with rows on two of them, one date holding two rows.
C21_Witness ==
    /\ TrendsAnswered
    /\ locals.days = 2
    /\ Len(records) = 3
    /\ Cardinality({d \in locals.start_date..locals.end_date : RowsOnDate(d) # {}}) = 2
    /\ \E d \in locals.start_date..locals.end_date : RowsOnDate(d) = {}
    /\ \E n \in 1..3 : response.data[n].emotions["sad"].num > 0

(***************************************************************************)
(* Claims about the scoring components under repeated and concurrent       *)
(* calls, checked under SpecEngine.                                        *)
(***************************************************************************)
Returned(c) == calls[c].pc = "returned"

InCall(c) == calls[c].pc \in {"running", "stability", "wellness", "slice"}

\* What the call of a thread returns when it is the only call ever made: the
\* function of its arguments and of the instance as it was constructed.
ResultMatchesArguments(call) ==
    IF call.fn \in AnalyzerMethods
    THEN call.output = MethodResult(call.fn, call.input[1])
    ELSE LET args == call.input[1]
         IN  heap[call.output[1]] =
                 GenerateIntelligentRecommendations(args.dominant_emotion, args.confidence,
                                                    args.wellness_score, args.stability_score)

SameResult(a, b) ==
    IF a.fn \in AnalyzerMethods THEN a.output = b.output
    ELSE heap[a.output[1]] = heap[b.output[1]]

\* C22: the scoring components keep no state between calls: no call of
\* calculate_wellness_score, calculate_stability_score,
\* get_dominant_emotion_trend or generate_intelligent_recommendations writes
\* the weight table, the stability constant or another shared variable, so
\* repeated and interleaved concurrent calls return the same output for the
\* same input as the call run alone.
C22_CallsKeepNoState ==
    /\ analyzer = NewEmotionAnalyzer
    /\ \A c \in Callers : Returned(c) => ResultMatchesArguments(calls[c])
    /\ \A a \in Callers, b \in Callers :
           (/\ Returned(a) /\ Returned(b)
            /\ calls[a].fn = calls[b].fn
            /\ calls[a].input = calls[b].input) => SameResult(calls[a], calls[b])

\* Two threads have run the stability method on the same history in
\* overlapping calls, one of them after an earlier call of its own.
C22_Witness ==
    /\ \A c \in Callers :
           /\ Returned(c)
           /\ calls[c].fn = "calculate_stability_score"
           /\ calls[c].overlapped
           /\ Len(calls[c].input[1]) = 6
    /\ calls[1].held # <<>>
    /\ calls[1].output = calls[2].output

\* C23: generate_intelligent_recommendations never mutates a list it returned
\* earlier: every call builds a fresh list, and the prepends of later calls
\* leave every previously returned list unchanged.
C23_ReturnedListsAreNeverMutated ==
    /\ \A c \in Callers :
           \A n \in 1..Len(Held(calls[c])) :
               LET list == calls[c].held[n]
               IN  /\ list.id \in DOMAIN heap
                   /\ heap[list.id] = list.items
    /\ \A c \in Callers :
           calls[c].pc \in {"stability", "wellness", "slice"} =>
               /\ calls[c].recommendations \in DOMAIN heap
               /\ \A o \in Callers : calls[c].recommendations \notin HeldBy(calls[o])
               /\ \A o \in Callers \ {c} :
                      calls[o].pc \in {"stability", "wellness", "slice"} =>
                          calls[o].recommendations # calls[c].recommendations
    /\ \A c \in Callers :
           \A o \in Callers \ {c} : HeldBy(calls[c]) \cap HeldBy(calls[o]) = {}

\* Thread 1 holds a four-item list from an earlier call while its next call
\* and a call of thread 2 have both prepended to their own lists.
C23_Witness ==
    /\ calls[1].pc = "slice"
    /\ calls[2].pc = "slice"
    /\ calls[1].held # <<>>
    /\ Len(calls[1].held[1].items) = 4
    /\ Len(heap[calls[1].recommendations]) = 5
    /\ Len(heap[calls[2].recommendations]) = 4
    /\ heap[calls[1].held[1].id] = calls[1].held[1].items

(***************************************************************************)
(* Claims about the session routes, checked under SpecSessions.            *)
(***************************************************************************)
SessionsWith(session_id) == {i \in 1..Len(db.sessions) : db.sessions[i].session_id = session_id}

RecordsWith(session_id) == {n \in 1..Len(db.records) : db.records[n].session_id = session_id}

\* The step answers a request of 'handler' (a repeated identical answer with
\* nothing else changed is no step at all).
Answers(handler) == response' # response /\ response'.handler = handler

\* C24: save_emotion stores a record only when both 'emotions' and
\* 'confidence_scores' are valid, otherwise it answers 400 and leaves the
\* tables unchanged; hence every stored record has all seven canonical keys
\* with values within [0, 1].
C24_StoredRecordsHaveAllSevenKeys ==
    /\ \A n \in 1..Len(db.records) :
           /\ ValidateEmotionData(db.records[n].emotions_json)
           /\ ValidateEmotionData(db.records[n].confidence_scores)
    /\ \A t \in Callers :
           requests[t].pc = "save" =>
               /\ ValidateEmotionData(requests[t].emotions_json)
               /\ ValidateEmotionData(requests[t].confidence_scores)

\* C26: save_emotion with valid data and a valid session_id for which the
\* user has no session creates that session and stores the record in the same
\* commit: afterwards the session exists with total_detections = 1, exactly
\* one record carries its session_id, and the answer is 201.
C26_SaveCreatesMissingSession ==
    [][(/\ Answers("save_emotion")
        /\ response'.status # 400
        /\ FindSession(db.sessions, response'.session_id, response'.user_id) = {})
       => (/\ response'.status = 201
           /\ \E i \in FindSession(db'.sessions, response'.session_id, response'.user_id) :
                  db'.sessions[i].total_detections = <<1>>
           /\ Cardinality({n \in 1..Len(db'.records) :
                              db'.records[n].session_id = response'.session_id}) = 1)]_vars

\* C27: after any sequence of start_session, save_emotion and end_session
\* requests, interleavings of concurrent save_emotion requests on one session
\* included, each session's total_detections equals the number of stored
\* records with its session_id.
C27_TotalDetectionsCountsRecords ==
    \A i \in 1..Len(db.sessions) :
        db.sessions[i].total_detections
            = <<Cardinality(RecordsWith(db.sessions[i].session_id))>>

\* C28: every stored record has the user_id of the session with its
\* session_id; a save by one user naming another user's session_id is not
\* answered 201, stores no record, creates no second session with that id and
\* leaves the other user's session unchanged.
C28_RecordsBelongToTheSessionOwner ==
    /\ [](/\ \A n \in 1..Len(db.records) :
                \E i \in SessionsWith(db.records[n].session_id) :
                    db.sessions[i].user_id = db.records[n].user_id
          /\ \A i \in 1..Len(db.sessions) :
                SessionsWith(db.sessions[i].session_id) = {i}
          /\ response.handler = "save_emotion" =>
                \A i \in SessionsWith(response.session_id) :
                    db.sessions[i].user_id # response.user_id => response.status \in {400, 500})
    /\ [][(/\ Answers("save_emotion")
           /\ \E i \in SessionsWith(response'.session_id) :
                  db.sessions[i].user_id # response'.user_id)
          => db' = db]_vars

\* User 2 has named the session of user 1, which holds a record of user 1,
\* with a valid body and has been answered 500.
C28_Witness ==
    /\ response.handler = "save_emotion"
    /\ response.status = 500
    /\ response.user_id = 2
    /\ \E i \in SessionsWith(response.session_id) :
           /\ db.sessions[i].user_id = 1
           /\ db.sessions[i].total_detections = <<1>>
    /\ Len(db.records) = 1
    /\ db.records[1].user_id = 1

\* C29: a session's end_time is set at most once and never changes
\* afterwards: end_session on the owner's open session sets it and answers
\* 200; on an already ended session it answers 400 and on a session_id the
\* caller has no session for 404, both without a change.
C29_EndTimeIsSetAtMostOnce ==
    [][/\ \A i \in 1..Len(db.sessions) :
              db.sessions[i].end_time # <<>> =>
                  db'.sessions[i].end_time = db.sessions[i].end_time
       /\ (Answers("end_session") /\ response'.status = 200) =>
              \E i \in FindSession(db'.sessions, response'.session_id, response'.user_id) :
                  db'.sessions[i].end_time # <<>>
       /\ (Answers("end_session") /\ response'.status \in {400, 404}) => db' = db]_vars

====
